---- MODULE Spec2Model ----
(***************************************************************************)
(* Advanced_Data_Analyzer: the profiler, the imputer, the outlier detector *)
(* and the analyzer (analyzer/profiling.py, cleaning.py, analysis.py), the *)
(* ingestion, the charts and the reports (ingestion.py, visualization.py,  *)
(* reporting.py) and the pipeline that calls them (analyze.py); and the    *)
(* survey cleaners of Madagascar_ML_Targeting (src/cleaning).              *)
(*                                                                         *)
(* A table (a parquet file) is a sequence of columns; a column is a record *)
(* [name, dtype, cells] with dtype one of "number", "object", "datetime"   *)
(* and cells a sequence of integers, NA standing for a missing cell.       *)
(* Numeric cells are fixed-point numbers with Unit steps per 1.0: medians  *)
(* and means of up to five values are exact, other quotients are cut to    *)
(* the step.  Percentages are held in tenths of a percent (round(x, 1)     *)
(* keeps one decimal): 30.0 is 300.                                        *)
(***************************************************************************)
EXTENDS Integers, Sequences, FiniteSets, TLC

VARIABLES
    fs,        \* the files on disk: a function from path to table
    args,      \* the arguments of the call under way (file_path, method, ...)
    profile,   \* the profile dictionary handed to the call
    result,    \* what the call returned or raised
    pc,        \* where the caller is
    runs,      \* the runs of analyze_file: the locals of each and where it is
    reports,   \* the files of the reports directory: charts and reports
    cleaner    \* a survey cleaner object and the files it wrote

vars == <<fs, args, profile, result, pc, runs, reports, cleaner>>

\* what the calls of the single operations leave alone
pipeline_vars == <<runs, reports, cleaner>>

(***************************************************************************)
(* Values                                                                  *)
(***************************************************************************)
NA == 0 - 1

Unit == 3 * 4 * 5

IsNA(c) == c = NA

Range(s) == {s[i] : i \in DOMAIN s}

RECURSIVE SumOver(_, _)
SumOver(S, f) ==
    IF S = {} THEN 0
    ELSE LET x == CHOOSE y \in S : TRUE IN f[x] + SumOver(S \ {x}, f)

\* ascending sequence of the integers of a finite set
RECURSIVE SortedSeq(_)
SortedSeq(S) ==
    IF S = {} THEN <<>>
    ELSE LET m == CHOOSE x \in S : \A y \in S : x <= y
         IN <<m>> \o SortedSeq(S \ {m})

\* ascending sequence of the values of a function, duplicates kept
RECURSIVE SortedValues(_, _)
SortedValues(D, f) ==
    IF D = {} THEN <<>>
    ELSE LET i == CHOOSE x \in D : \A y \in D : f[x] <= f[y]
         IN <<f[i]>> \o SortedValues(D \ {i}, f)

(***************************************************************************)
(* Tables                                                                  *)
(***************************************************************************)
NRows(df) == IF Len(df) = 0 THEN 0 ELSE Len(df[1].cells)

ColIndex(df, name) == CHOOSE j \in 1..Len(df) : df[j].name = name

Present(col) == {i \in 1..Len(col.cells) : ~IsNA(col.cells[i])}

Missing(col) == {i \in 1..Len(col.cells) : IsNA(col.cells[i])}

(***************************************************************************)
(* profiling.py                                                            *)
(***************************************************************************)
\* names (of the columns this model draws) that contain "date" or "time"
DateLikeNames == {"order_time"}

NameHasDateOrTime(name) == name \in DateLikeNames

\* mutant: the percentage is cut after the first decimal
Round1_Truncate(num, den) == (1000 * num) \div den

\* round(x, 1) of x = 100 * num / den, in tenths: round half to even
Round1(num, den) ==
    LET n == 1000 * num
        q == n \div den
        r == n % den
    IN IF 2 * r < den THEN q
       ELSE IF 2 * r > den THEN q + 1
       ELSE IF q % 2 = 0 THEN q ELSE q + 1

\* .columns.tolist()
NamesOf(cols) == [j \in 1..Len(cols) |-> cols[j].name]

NUnique(col) == Cardinality({col.cells[i] : i \in Present(col)})

HighCardUnique == 50

HighDimCols == 10

\* mutant: a ratio above 0.8 flags a column of two values too
IsHighCardinality_NoFloor(col, rows) ==
    LET n_unique == NUnique(col)
    IN \/ n_unique > HighCardUnique
       \/ (rows > 0 /\ 10 * n_unique > 8 * rows)

IsHighCardinality(col, rows) ==
    LET n_unique == NUnique(col)
    IN \/ n_unique > HighCardUnique
       \/ (rows > 0 /\ 10 * n_unique > 8 * rows /\ n_unique > 2)

\* mutant: ten numeric columns are still 'low'
Dimensionality_AboveTen(numeric_cols) ==
    IF Len(numeric_cols) > HighDimCols THEN "high" ELSE "low"

Dimensionality(numeric_cols) ==
    IF Len(numeric_cols) >= HighDimCols THEN "high" ELSE "low"

MissingMap(df) ==
    LET rows == NRows(df)
        withMissing == SelectSeq(df, LAMBDA col : Cardinality(Missing(col)) > 0)
    IN [j \in 1..Len(withMissing) |->
           [col |-> withMissing[j].name,
            pct |-> Round1(Cardinality(Missing(withMissing[j])), rows)]]

DateCols(df) ==
    LET typed == NamesOf(SelectSeq(df, LAMBDA col : col.dtype = "datetime"))
    IN typed \o NamesOf(SelectSeq(df, LAMBDA col :
                    NameHasDateOrTime(col.name) /\ col.name \notin Range(typed)))

profile_data(df) ==
    LET numeric_cols == NamesOf(SelectSeq(df, LAMBDA col : col.dtype = "number"))
        categorical == SelectSeq(df, LAMBDA col : col.dtype = "object")
    IN [rows |-> NRows(df),
        cols |-> Len(df),
        missing |-> MissingMap(df),
        numeric_cols |-> numeric_cols,
        categorical_cols |-> NamesOf(categorical),
        date_cols |-> DateCols(df),
        high_cardinality |->
            NamesOf(SelectSeq(categorical, LAMBDA col : IsHighCardinality(col, NRows(df)))),
        dimensionality |-> Dimensionality(numeric_cols)]

\* profile['missing'] lookups: the dictionary keeps insertion order
MissingKeys(missing) == [j \in 1..Len(missing) |-> missing[j].col]

InMissing(missing, name) == \E j \in 1..Len(missing) : missing[j].col = name

(***************************************************************************)
(* cleaning.py: imputation                                                 *)
(***************************************************************************)
\* Series.median(): missing cells skipped, NaN (NA) when nothing is present
Median(col) ==
    LET P == Present(col)
        n == Cardinality(P)
        s == SortedValues(P, col.cells)
    IN IF n = 0 THEN NA
       ELSE IF n % 2 = 1 THEN s[(n + 1) \div 2]
       ELSE (s[n \div 2] + s[n \div 2 + 1]) \div 2

\* Series.mode(): the most frequent present values, ascending
Mode(col) ==
    LET P == Present(col)
        count(v) == Cardinality({i \in P : col.cells[i] = v})
        vals == {col.cells[i] : i \in P}
        top == {v \in vals : \A w \in vals : count(w) <= count(v)}
    IN SortedSeq(top)

\* mutant: the fill value is assigned to the whole column
FillNA_Overwrite(col, v) ==
    [col EXCEPT !.cells = [i \in 1..Len(col.cells) |-> v]]

\* Series.fillna(v): filling with NaN leaves the cells missing
FillNA(col, v) ==
    [col EXCEPT !.cells = [i \in 1..Len(col.cells) |->
                               IF IsNA(col.cells[i]) THEN v ELSE col.cells[i]]]

ModeFill(col) ==
    LET mode_val == Mode(col)
    IN IF Len(mode_val) > 0 THEN FillNA(col, mode_val[1]) ELSE col

SimpleImputeColumn(col, prof) ==
    LET afterNumeric ==
            IF col.name \in Range(prof.numeric_cols) /\ InMissing(prof.missing, col.name)
            THEN FillNA(col, Median(col)) ELSE col
    IN IF col.name \in Range(prof.categorical_cols) /\ InMissing(prof.missing, col.name)
       THEN ModeFill(afterNumeric) ELSE afterNumeric

_simple_impute(df, prof) ==
    [ok |-> TRUE, df |-> [j \in 1..Len(df) |-> SimpleImputeColumn(df[j], prof)]]

n_neighbors == 5

\* nan_euclidean_distances, squared and without the common factor (the number
\* of coordinates): [nan, num, den] stands for num / den, nan when the two rows
\* share no present coordinate
SqDist(X, r, d) ==
    LET common == {k \in 1..Len(X) : ~IsNA(X[k].cells[r]) /\ ~IsNA(X[k].cells[d])}
        sq == [k \in common |-> (X[k].cells[r] - X[k].cells[d]) * (X[k].cells[r] - X[k].cells[d])]
    IN [nan |-> common = {}, num |-> SumOver(common, sq), den |-> Cardinality(common)]

\* the distances from row r to the rows 1..n, as a sequence
RECURSIVE DistancesFrom(_, _, _)
DistancesFrom(X, r, n) ==
    IF n = 0 THEN <<>> ELSE Append(DistancesFrom(X, r, n - 1), SqDist(X, r, n))

\* a is sorted before b: NaN distances last, ties by row position
CloserDonor(dist, a, b) ==
    IF dist[a].nan /\ dist[b].nan THEN a < b
    ELSE IF dist[a].nan THEN FALSE
    ELSE IF dist[b].nan THEN TRUE
    ELSE \/ dist[a].num * dist[b].den < dist[b].num * dist[a].den
         \/ (dist[a].num * dist[b].den = dist[b].num * dist[a].den /\ a < b)

\* KNNImputer's value for the missing cell (row r, column c) of X: the mean
\* of the nearest donors (rows where c is present) at a known distance, or
\* the column's mean when no donor is at a known distance
KnnValue(X, r, c) ==
    LET donors == Present(X[c])
        dist == DistancesFrom(X, r, Len(X[c].cells))
        usable == {d \in donors : ~dist[d].nan}
        k == IF Cardinality(donors) < n_neighbors THEN Cardinality(donors) ELSE n_neighbors
        nearest == {d \in donors :
                       Cardinality({e \in donors : CloserDonor(dist, e, d)}) < k}
        used == nearest \cap usable
    IN IF usable = {}
       THEN SumOver(donors, X[c].cells) \div Cardinality(donors)
       ELSE SumOver(used, X[c].cells) \div Cardinality(used)

\* KNNImputer(n_neighbors=5).fit_transform(X): a column with no present value
\* is dropped from the output
KnnTransform(X) ==
    LET valid == SelectSeq(X, LAMBDA col : Present(col) # {})
        c_of(j) == CHOOSE c \in 1..Len(X) : X[c].name = valid[j].name
    IN [j \in 1..Len(valid) |->
           [valid[j] EXCEPT !.cells = [r \in 1..Len(valid[j].cells) |->
               IF IsNA(valid[j].cells[r]) THEN KnnValue(X, r, c_of(j))
               ELSE valid[j].cells[r]]]]

_knn_impute(df, prof) ==
    LET numeric_cols == prof.numeric_cols
        X == SelectSeq(df, LAMBDA col : col.name \in Range(numeric_cols))
        filled == KnnTransform(X)
        \* df[numeric_cols] = array: the array must have as many columns
        assigned == [j \in 1..Len(df) |->
                        IF df[j].name \in Range(numeric_cols)
                        THEN filled[CHOOSE k \in 1..Len(filled) : filled[k].name = df[j].name]
                        ELSE df[j]]
        categorical(d) == [j \in 1..Len(d) |->
                        IF d[j].name \in Range(prof.categorical_cols)
                           /\ InMissing(prof.missing, d[j].name)
                        THEN ModeFill(d[j]) ELSE d[j]]
    IN IF Len(numeric_cols) > 0 /\ Len(filled) # Len(X)
       THEN [ok |-> FALSE, error |-> "ValueError"]
       ELSE IF Len(numeric_cols) > 0
       THEN [ok |-> TRUE, df |-> categorical(assigned)]
       ELSE [ok |-> TRUE, df |-> categorical(df)]

_random_forest_impute(df, prof) == _knn_impute(df, prof)

\* tempfile.gettempdir(); a path is [dir, stem, ext], the stem a sequence of
\* the words that underscores join ("ingested_data" is <<"ingested", "data">>)
TempDir == "tmp"

\* mutant: the cleaned table is written back to the file it was read from
CleanedPath_InPlace(file_path) == file_path

CleanedPath(file_path) ==
    [dir |-> TempDir, stem |-> <<"cleaned">> \o file_path.stem, ext |-> "parquet"]

DefaultThreshold == 300

AutoSimpleBelow == 50

AutoKnnBelow == 150

MaxOf(S) == CHOOSE x \in S : \A y \in S : y <= x

\* mutant: 5.0 itself still counts as "below 5"
AutoImputeMethod_SimpleAtFive(cols_to_impute) ==
    LET max_missing_pct == MaxOf({cols_to_impute[j].pct : j \in 1..Len(cols_to_impute)})
    IN IF max_missing_pct <= AutoSimpleBelow THEN "simple"
       ELSE IF max_missing_pct < AutoKnnBelow THEN "knn"
       ELSE "random_forest"

\* mutant: 15.0 itself still counts as "5 to 15"
AutoImputeMethod_KnnAtFifteen(cols_to_impute) ==
    LET max_missing_pct == MaxOf({cols_to_impute[j].pct : j \in 1..Len(cols_to_impute)})
    IN IF max_missing_pct < AutoSimpleBelow THEN "simple"
       ELSE IF max_missing_pct <= AutoKnnBelow THEN "knn"
       ELSE "random_forest"

\* the method impute_missing settles on when asked for 'auto'
AutoImputeMethod(cols_to_impute) ==
    LET max_missing_pct == MaxOf({cols_to_impute[j].pct : j \in 1..Len(cols_to_impute)})
    IN IF max_missing_pct < AutoSimpleBelow THEN "simple"
       ELSE IF max_missing_pct < AutoKnnBelow THEN "knn"
       ELSE "random_forest"

\* mutant: the threshold filter is forgotten
ColsToImpute_NoThreshold(missing, impute_threshold) == missing

ColsToImpute(missing, impute_threshold) ==
    SelectSeq(missing, LAMBDA e : e.pct <= impute_threshold)

\* mutant: a column exactly at the threshold is skipped as well
SkippedColumns_AtThreshold(missing, impute_threshold) ==
    SelectSeq(missing, LAMBDA e : e.pct >= impute_threshold)

SkippedColumns(missing, impute_threshold) ==
    SelectSeq(missing, LAMBDA e : e.pct > impute_threshold)

ImputeDispatch(df, impute_profile, method) ==
    IF method = "simple" THEN _simple_impute(df, impute_profile)
    ELSE IF method = "knn" THEN _knn_impute(df, impute_profile)
    ELSE IF method = "random_forest" THEN _random_forest_impute(df, impute_profile)
    ELSE [ok |-> FALSE, error |-> "ValueError"]

\* mutant: the result names the routine that did the work
ImputedResult_RoutineName(temp_path, cols_to_impute, skipped_columns, method) ==
    [status |-> "returned",
     file_path |-> temp_path,
     imputed_columns |-> MissingKeys(cols_to_impute),
     skipped_columns |-> MissingKeys(skipped_columns),
     method_used |-> IF method = "random_forest" THEN "knn" ELSE method]

\* the dictionary returned once the cleaned table is written
ImputedResult(temp_path, cols_to_impute, skipped_columns, method) ==
    [status |-> "returned",
     file_path |-> temp_path,
     imputed_columns |-> MissingKeys(cols_to_impute),
     skipped_columns |-> MissingKeys(skipped_columns),
     method_used |-> method]

\* impute_missing(file_path, profile, method, impute_threshold) on the files
\* files: [result, fs], the value returned (or the error raised) and the files
\* afterwards
impute_missing(files, file_path, prof, method, impute_threshold) ==
    LET df == files[file_path]
        cols_to_impute == ColsToImpute(prof.missing, impute_threshold)
        skipped_columns == SkippedColumns(prof.missing, impute_threshold)
        chosen == IF method = "auto" THEN AutoImputeMethod(cols_to_impute) ELSE method
        impute_profile == [prof EXCEPT !.missing = cols_to_impute]
        imputed == ImputeDispatch(df, impute_profile, chosen)
        temp_path == CleanedPath(file_path)
    IN IF Len(prof.missing) = 0
       THEN [result |-> [status |-> "returned",
                         file_path |-> file_path,
                         imputed_columns |-> <<>>,
                         skipped_columns |-> <<>>,
                         method_used |-> "none"],
             fs |-> files]
       ELSE IF Len(cols_to_impute) = 0
       THEN [result |-> [status |-> "returned",
                         file_path |-> file_path,
                         imputed_columns |-> <<>>,
                         skipped_columns |-> MissingKeys(skipped_columns),
                         method_used |-> "none"],
             fs |-> files]
       ELSE IF ~imputed.ok
       THEN [result |-> [status |-> "raised", error |-> imputed.error],
             fs |-> files]
       ELSE [result |-> ImputedResult(temp_path, cols_to_impute, skipped_columns, chosen),
             fs |-> (temp_path :> imputed.df) @@ files]

(***************************************************************************)
(* cleaning.py: outlier detection                                          *)
(***************************************************************************)
\* mutant: the quantile is the order statistic below the position, not
\* interpolated
Quantile4_Lower(col, k) ==
    LET P == Present(col)
        n == Cardinality(P)
        s == SortedValues(P, col.cells)
    IN 4 * s[(k * (n - 1)) \div 4 + 1]

\* 4 * Series.quantile(k / 4), linear interpolation over the present values
\* (called with at least one present value)
Quantile4(col, k) ==
    LET P == Present(col)
        n == Cardinality(P)
        s == SortedValues(P, col.cells)
        lo == (k * (n - 1)) \div 4
        r == (k * (n - 1)) % 4
    IN IF r = 0 THEN 4 * s[lo + 1]
       ELSE 4 * s[lo + 1] + r * (s[lo + 2] - s[lo + 1])

\* the rows (1-based) of one column outside [Q1 - 1.5 IQR, Q3 + 1.5 IQR];
\* every comparison with NaN is false
IqrColumnOutliers(col) ==
    IF Present(col) = {} THEN {}
    ELSE LET Q1 == Quantile4(col, 1)
             Q3 == Quantile4(col, 3)
             IQR == Q3 - Q1
             lower_bound == 2 * Q1 - 3 * IQR
             upper_bound == 2 * Q3 + 3 * IQR
         IN {i \in Present(col) :
                8 * col.cells[i] < lower_bound \/ 8 * col.cells[i] > upper_bound}

\* a sequence holding the elements of a finite set of integers, descending
RECURSIVE DescendingSeq(_)
DescendingSeq(S) ==
    IF S = {} THEN <<>>
    ELSE LET m == CHOOSE x \in S : \A y \in S : y <= x
         IN <<m>> \o DescendingSeq(S \ {m})

\* mutant: the flags of the columns are appended to a list, neither
\* deduplicated nor sorted
RECURSIVE _iqr_outliers_Unsorted(_, _)
_iqr_outliers_Unsorted(df, numeric_cols) ==
    IF Len(numeric_cols) = 0 THEN <<>>
    ELSE _iqr_outliers_Unsorted(df, SubSeq(numeric_cols, 1, Len(numeric_cols) - 1))
         \o DescendingSeq({i - 1 : i \in
                 IqrColumnOutliers(df[ColIndex(df, numeric_cols[Len(numeric_cols)])])})

\* the index of a DataFrame read from parquet is 0, 1, ...: row i has index i - 1
_iqr_outliers(df, numeric_cols) ==
    LET flagged == UNION {IqrColumnOutliers(df[j]) :
                             j \in {k \in 1..Len(df) : df[k].name \in Range(numeric_cols)}}
    IN SortedSeq({i - 1 : i \in flagged})

MinCompleteRows == 10

\* mutant: the rows with a missing numeric cell are not dropped
CompleteRows_NoDropna(df, numeric_cols) == 1..NRows(df)

\* df[numeric_cols].dropna(): the rows with no missing numeric cell
CompleteRows(df, numeric_cols) ==
    {i \in 1..NRows(df) :
        \A j \in 1..Len(df) : df[j].name \in Range(numeric_cols) => ~IsNA(df[j].cells[i])}

\* With contamination 0.1 the detector labels -1 the rows whose score is
\* strictly below the 10th percentile of the n scores: at most this many
MaxLabelled(n) == ((n - 1) + 9) \div 10

\* what fit_predict may label -1 on the complete rows
OutlierLabelings(df, numeric_cols) ==
    LET X == CompleteRows(df, numeric_cols)
    IN IF Cardinality(X) < MinCompleteRows THEN {{}}
       ELSE {L \in SUBSET X : Cardinality(L) <= MaxLabelled(Cardinality(X))}

_knn_outliers(df, numeric_cols, labelled) ==
    IF Cardinality(CompleteRows(df, numeric_cols)) < MinCompleteRows THEN <<>>
    ELSE SortedSeq({i - 1 : i \in labelled})

_isolation_forest_outliers(df, numeric_cols, labelled) ==
    IF Cardinality(CompleteRows(df, numeric_cols)) < MinCompleteRows THEN <<>>
    ELSE SortedSeq({i - 1 : i \in labelled})

AutoIqrBelow == 5

AutoKnnOutlierBelow == 10

\* mutant: ten numeric columns still count as "5 to 9"
AutoOutlierMethod_KnnAtTen(numeric_cols) ==
    LET n_numeric == Len(numeric_cols)
    IN IF n_numeric < AutoIqrBelow THEN "iqr"
       ELSE IF n_numeric <= AutoKnnOutlierBelow THEN "knn"
       ELSE "isolation_forest"

AutoOutlierMethod(numeric_cols) ==
    LET n_numeric == Len(numeric_cols)
    IN IF n_numeric < AutoIqrBelow THEN "iqr"
       ELSE IF n_numeric < AutoKnnOutlierBelow THEN "knn"
       ELSE "isolation_forest"

\* mutant: the early return for a profile without numeric columns is missing
NoNumericColumns_Never(numeric_cols) == FALSE

NoNumericColumns(numeric_cols) == Len(numeric_cols) = 0

\* the detectors that draw on a fitted model (and so on `labelled`)
UsesLabelling(prof, method) ==
    /\ ~NoNumericColumns(prof.numeric_cols)
    /\ (IF method = "auto" THEN AutoOutlierMethod(prof.numeric_cols) ELSE method)
           \in {"knn", "isolation_forest"}

\* detect_outliers(file_path, profile, method); labelled is what the fitted
\* detector labels -1, for the two methods that fit one
detect_outliers(files, file_path, prof, method, labelled) ==
    LET df == files[file_path]
        numeric_cols == prof.numeric_cols
        chosen == IF method = "auto" THEN AutoOutlierMethod(numeric_cols) ELSE method
        outlier_indices ==
            IF chosen = "iqr" THEN _iqr_outliers(df, numeric_cols)
            ELSE IF chosen = "knn" THEN _knn_outliers(df, numeric_cols, labelled)
            ELSE _isolation_forest_outliers(df, numeric_cols, labelled)
    IN IF NoNumericColumns(numeric_cols)
       THEN [status |-> "returned",
             outlier_indices |-> <<>>,
             method_used |-> "none",
             outlier_count |-> 0]
       ELSE IF chosen \notin {"iqr", "knn", "isolation_forest"}
       THEN [status |-> "raised", error |-> "ValueError"]
       ELSE [status |-> "returned",
             outlier_indices |-> outlier_indices,
             method_used |-> chosen,
             outlier_count |-> Len(outlier_indices)]

(***************************************************************************)
(* analysis.py                                                             *)
(***************************************************************************)
\* the integer nearest to num / den (num >= 0, den > 0), halves to even
RoundHalfEven(num, den) ==
    LET q == num \div den
        r == num % den
    IN IF 2 * r < den THEN q
       ELSE IF 2 * r > den THEN q + 1
       ELSE IF q % 2 = 0 THEN q ELSE q + 1

\* the largest integer of lo..hi whose square is at most q (lo * lo <= q)
RECURSIVE ISqrtIn(_, _, _)
ISqrtIn(q, lo, hi) ==
    IF lo = hi THEN lo
    ELSE LET mid == (lo + hi + 1) \div 2
         IN IF mid * mid <= q THEN ISqrtIn(q, mid, hi) ELSE ISqrtIn(q, lo, mid - 1)

\* the squares of larger roots do not fit the integers of the model
ISqrt(q) == ISqrtIn(q, 0, IF q < 40000 THEN 200 ELSE 40000)

\* round(v, 2) of a cell value, in hundredths; NaN stays NaN
Round2(v) == IF IsNA(v) THEN NA ELSE RoundHalfEven(100 * v, Unit)

SumCells(col, P) == SumOver(P, col.cells)

SumProducts(colx, coly, P) ==
    SumOver(P, [i \in P |-> colx.cells[i] * coly.cells[i]])

\* n * sum(x * y) - sum(x) * sum(y) over the rows of P: n * (n - 1) times the
\* sample covariance, in squared steps
CoMoment(colx, coly, P) ==
    Cardinality(P) * SumProducts(colx, coly, P) - SumCells(colx, P) * SumCells(coly, P)

\* round(describe()['mean'], 2), in hundredths
MeanRounded(col) ==
    LET P == Present(col)
    IN IF P = {} THEN NA
       ELSE RoundHalfEven(100 * SumCells(col, P), Unit * Cardinality(P))

\* round(describe()['std'], 2), in hundredths: the sample standard deviation,
\* NaN below two present values.  100 * std is the root of
\* (100 / Unit)^2 * CoMoment / (n * (n - 1)); the nearest integer to a root
\* is half the (rounded up) root of four times the square
StdRounded(col) ==
    LET P == Present(col)
        n == Cardinality(P)
        common == 20
        a == (2 * 100) \div common
        b == Unit \div common
    IN IF n < 2 THEN NA
       ELSE (ISqrt((a * a * CoMoment(col, col, P)) \div (b * b * n * (n - 1))) + 1) \div 2

MinRounded(col) ==
    LET P == Present(col)
    IN IF P = {} THEN NA
       ELSE Round2(CHOOSE v \in {col.cells[i] : i \in P} : \A i \in P : v <= col.cells[i])

MaxRounded(col) ==
    LET P == Present(col)
    IN IF P = {} THEN NA
       ELSE Round2(CHOOSE v \in {col.cells[i] : i \in P} : \A i \in P : col.cells[i] <= v)

Statistics(col) ==
    [mean |-> MeanRounded(col),
     std |-> StdRounded(col),
     min |-> MinRounded(col),
     max |-> MaxRounded(col),
     median |-> Round2(Median(col))]

\* DataFrame.corr() for one pair: Pearson over the rows present in both
\* columns.  The coefficient is cov / sqrt(var_x * var_y), held by its three
\* moments; NaN below two shared rows or when a column is constant there
Pearson(colx, coly) ==
    LET P == Present(colx) \cap Present(coly)
        cov == CoMoment(colx, coly, P)
        var_x == CoMoment(colx, colx, P)
        var_y == CoMoment(coly, coly, P)
    IN IF Cardinality(P) < 2 \/ var_x = 0 \/ var_y = 0
       THEN [nan |-> TRUE, cov |-> 0, var_x |-> 0, var_y |-> 0]
       ELSE [nan |-> FALSE, cov |-> cov, var_x |-> var_x, var_y |-> var_y]

\* corr_matrix.to_dict(): an entry for each ordered pair of the columns
CorrMatrix(df, numeric_cols) ==
    [pair \in Range(numeric_cols) \X Range(numeric_cols) |->
        Pearson(df[ColIndex(df, pair[1])], df[ColIndex(df, pair[2])])]

NoCorrelations == [none |-> TRUE]

MinCorrCols == 2

\* mutant: a single numeric column gets a matrix too
Correlations_FromOne(df, numeric_cols) ==
    IF Len(numeric_cols) >= 1
    THEN [none |-> FALSE, columns |-> numeric_cols, matrix |-> CorrMatrix(df, numeric_cols)]
    ELSE NoCorrelations

\* result['correlations']: None, or the matrix as a dictionary of dictionaries
\* keyed by the columns in their order
Correlations(df, numeric_cols) ==
    IF Len(numeric_cols) >= MinCorrCols
    THEN [none |-> FALSE, columns |-> numeric_cols, matrix |-> CorrMatrix(df, numeric_cols)]
    ELSE NoCorrelations

TopValues == 10

\* Series.value_counts(): the present values with their counts, the most
\* frequent first, equal counts in the order of first appearance
RECURSIVE ValueCountsOf(_, _)
ValueCountsOf(col, vals) ==
    IF vals = {} THEN <<>>
    ELSE LET count(v) == Cardinality({i \in Present(col) : col.cells[i] = v})
             first(v) == CHOOSE i \in Present(col) :
                             /\ col.cells[i] = v
                             /\ \A k \in Present(col) : col.cells[k] = v => i <= k
             top == CHOOSE v \in vals : \A w \in vals :
                        \/ count(v) > count(w)
                        \/ count(v) = count(w) /\ first(v) <= first(w)
         IN <<[value |-> top, count |-> count(top)]>> \o ValueCountsOf(col, vals \ {top})

value_counts(col) == ValueCountsOf(col, {col.cells[i] : i \in Present(col)})

\* mutant: every value is kept
head_NoLimit(seq, n) == seq

\* .head(n)
head(seq, n) == SubSeq(seq, 1, IF Len(seq) < n THEN Len(seq) ELSE n)

\* profile.get('high_cardinality', [])
HighCardinalityOf(prof) ==
    IF "high_cardinality" \in DOMAIN prof THEN prof.high_cardinality ELSE <<>>

analyze_data(files, file_path, prof) ==
    LET df == files[file_path]
        summarised == SelectSeq(prof.categorical_cols,
                                LAMBDA name : name \notin Range(HighCardinalityOf(prof)))
    IN [status |-> "returned",
        \* a dictionary keeps the order of insertion: [col, stats] in the
        \* order of profile['numeric_cols']
        statistics |-> [k \in 1..Len(prof.numeric_cols) |->
                           [col |-> prof.numeric_cols[k],
                            stats |-> Statistics(df[ColIndex(df, prof.numeric_cols[k])])]],
        correlations |-> Correlations(df, prof.numeric_cols),
        categorical_summary |->
            [name \in Range(summarised) |->
                head(value_counts(df[ColIndex(df, name)]), TopValues)]]

(***************************************************************************)
(* ingestion.py                                                            *)
(***************************************************************************)
\* the suffixes that have a loader (the suffix is lower-cased, without dot)
Loaders == {"csv", "json", "xlsx", "parquet"}

\* what a path that is a directory holds
DirectoryEntry == <<[name |-> ".", dtype |-> "directory", cells |-> <<>>]>>

\* the metadata of the loader
LoaderMetadata(suffix) ==
    IF suffix = "csv" THEN [encoding |-> "utf-8"]
    ELSE IF suffix = "json" THEN [flattened |-> FALSE]
    ELSE IF suffix = "xlsx" THEN [sheet_used |-> "first"]
    ELSE [loader |-> "parquet"]

\* mutant: the intermediate file is named after directory and stem
IngestedPath_WithDir(file_path) ==
    [dir |-> TempDir, stem |-> <<"ingested", file_path.dir>> \o file_path.stem,
     ext |-> "parquet"]

\* tempdir / ingested_<stem>.parquet
IngestedPath(file_path) ==
    [dir |-> TempDir, stem |-> <<"ingested">> \o file_path.stem, ext |-> "parquet"]

\* ingest_file(file_path) on the files: [result, fs].  A source file holds
\* the table its loader reads from it
ingest_file(files, file_path) ==
    IF file_path.ext \notin Loaders
    THEN [result |-> [status |-> "raised", error |-> "ValueError"], fs |-> files]
    ELSE IF file_path \notin DOMAIN files
    THEN [result |-> [status |-> "raised", error |-> "FileNotFoundError"], fs |-> files]
    ELSE IF files[file_path] = DirectoryEntry
    THEN [result |-> [status |-> "raised", error |-> "ValueError"], fs |-> files]
    ELSE [result |-> [status |-> "returned",
                      file_path |-> IngestedPath(file_path),
                      format |-> file_path.ext,
                      metadata |-> LoaderMetadata(file_path.ext)],
          fs |-> (IngestedPath(file_path) :> files[file_path]) @@ files]

(***************************************************************************)
(* visualization.py                                                        *)
(***************************************************************************)
ReportsDir == "reports"

ChartPath(words) == [dir |-> ReportsDir, stem |-> words, ext |-> "png"]

MaxPlotted == 4

\* the categorical columns outside high_cardinality, in order
LowCardinalityCats(prof) ==
    SelectSeq(prof.categorical_cols,
              LAMBDA name : name \notin Range(HighCardinalityOf(prof)))

\* analysis.get('correlations') is neither None nor an empty dictionary
HasCorrelations(analysis) ==
    ~analysis.correlations.none /\ Len(analysis.correlations.columns) > 0

\* the charts generate_visualizations draws, in order: [path, content]; a
\* chart is held by its kind and the columns drawn in it
Charts(prof, analysis) ==
    (IF Len(prof.numeric_cols) >= MinCorrCols /\ HasCorrelations(analysis)
     THEN <<[path |-> ChartPath(<<"correlation", "heatmap">>),
             content |-> [chart |-> "heatmap",
                          columns |-> analysis.correlations.columns]]>>
     ELSE <<>>)
    \o (IF Len(prof.numeric_cols) > 0
        THEN <<[path |-> ChartPath(<<"distributions">>),
                content |-> [chart |-> "histograms",
                             columns |-> head(prof.numeric_cols, MaxPlotted)]]>>
        ELSE <<>>)
    \o (IF Len(LowCardinalityCats(prof)) > 0
        THEN <<[path |-> ChartPath(<<"categorical", "distributions">>),
                content |-> [chart |-> "bars",
                             columns |-> head(LowCardinalityCats(prof), MaxPlotted)]]>>
        ELSE <<>>)

\* the files of a directory after the listed files were written, in order
RECURSIVE WriteAll(_, _)
WriteAll(files, written) ==
    CHOOSE after \in
        {IF Len(w[2]) = 0 THEN w[1]
         ELSE WriteAll((w[2][1].path :> w[2][1].content) @@ w[1], Tail(w[2])) :
            w \in {<<files, written>>}} : TRUE

\* generate_visualizations(file_path, profile, analysis): the result and the
\* reports directory afterwards
generate_visualizations(dir, prof, analysis) ==
    LET charts == Charts(prof, analysis)
    IN [result |-> [status |-> "returned",
                    visualizations |-> [k \in 1..Len(charts) |-> charts[k].path]],
        reports |-> WriteAll(dir, charts)]

(***************************************************************************)
(* reporting.py: the chat report is built as text, character for           *)
(* character; the two characters of the warning sign and the               *)
(* multiplication sign are written with ASCII characters of the same count *)
(***************************************************************************)
WarningSign == "!!"

TimesSign == "x"

\* The recursive operators below bind their arguments to values first (a
\* singleton set is enumerated), so that an argument is evaluated once and not
\* once for each use at each depth.
RECURSIVE JoinText(_, _)
JoinText(texts, sep) ==
    CHOOSE joined \in {IF Len(t) = 0 THEN ""
                       ELSE IF Len(t) = 1 THEN t[1]
                       ELSE t[1] \o sep \o JoinText(Tail(t), sep) : t \in {texts}} : TRUE

\* f"{n:,}" of a natural number
RECURSIVE Thousands(_)
Thousands(n) ==
    CHOOSE text \in
        {IF k < 1000 THEN ToString(k)
         ELSE Thousands(k \div 1000) \o ","
              \o (IF k % 1000 < 10 THEN "00" ELSE IF k % 1000 < 100 THEN "0" ELSE "")
              \o ToString(k % 1000) : k \in {n}} : TRUE

\* str() of a percentage rounded to one decimal, from its tenths
PctText(pct) == ToString(pct \div 10) \o "." \o ToString(pct % 10)

\* str() of a float rounded to two decimals, from its hundredths: the shortest
\* decimal that reads back, with one decimal at least; NaN prints as nan
FloatText(h) ==
    IF h = NA THEN "nan"
    ELSE ToString(h \div 100) \o "."
         \o (IF h % 10 = 0 THEN ToString((h % 100) \div 10)
             ELSE IF h % 100 < 10 THEN "0" \o ToString(h % 100)
             ELSE ToString(h % 100))

\* a/b < c/d for naturals a, c and positive b, d, by continued fractions so
\* that no product is formed
RECURSIVE FracLess(_, _, _, _)
FracLess(a, b, c, d) ==
    \E w \in {<<a, b, c, d>>} :
       IF w[1] \div w[2] # w[3] \div w[4] THEN w[1] \div w[2] < w[3] \div w[4]
       ELSE IF w[3] % w[4] = 0 THEN FALSE
       ELSE IF w[1] % w[2] = 0 THEN TRUE
       ELSE FracLess(w[4], w[3] % w[4], w[2], w[1] % w[2])

AbsInt(x) == IF x < 0 THEN 0 - x ELSE x

RECURSIVE CommonDivisor(_, _)
CommonDivisor(a, b) ==
    CHOOSE g \in {IF w[2] = 0 THEN w[1] ELSE CommonDivisor(w[2], w[1] % w[2]) :
                     w \in {<<a, b>>}} : TRUE

\* the moments of a coefficient in lowest terms: the coefficient is the same
LowestTerms(corr) ==
    LET g == CommonDivisor(CommonDivisor(corr.var_x, corr.var_y), AbsInt(corr.cov))
    IN [cov |-> AbsInt(corr.cov) \div g, var_x |-> corr.var_x \div g, var_y |-> corr.var_y \div g]

\* abs(r) > m/n for a coefficient that is not NaN
AbsCorrAbove(corr, m, n) ==
    LET low == LowestTerms(corr)
    IN /\ corr.cov # 0
       /\ FracLess(m * low.var_x, n * low.cov, n * low.cov, m * low.var_y)

\* abs(corr_val) > abs(max_corr); a comparison with NaN is False
AbsCorrGreater(corr_val, max_corr) ==
    LET new == LowestTerms(corr_val)
        old == LowestTerms(max_corr)
    IN /\ ~corr_val.nan
       /\ corr_val.cov # 0
       /\ new.cov # old.cov \/ {new.var_x, new.var_y} # {old.var_x, old.var_y}
       /\ FracLess(old.cov * new.var_x, old.var_x * new.cov,
                   new.cov * old.var_y, new.var_y * old.cov)

\* f"{max_corr:.2f}" of a coefficient with abs(max_corr) > 0.7: the hundredths
\* are the least k with abs(max_corr) <= (2k + 1)/200
CorrText(corr) ==
    LET k == CHOOSE k \in 70..100 :
                 /\ ~AbsCorrAbove(corr, 2 * k + 1, 200)
                 /\ \A j \in 70..(k - 1) : AbsCorrAbove(corr, 2 * j + 1, 200)
    IN (IF corr.cov < 0 THEN "-" ELSE "")
       \o (IF k = 100 THEN "1.00" ELSE "0." \o ToString(k))

\* the (col1, col2) pairs in the order the two loops visit them
PairsOf(columns) ==
    [k \in 1..(Len(columns) * Len(columns)) |->
        <<columns[((k - 1) \div Len(columns)) + 1], columns[((k - 1) % Len(columns)) + 1]>>]

NoPair == [found |-> FALSE]

\* the loops of lines 80-84: max_pair and max_corr after the pairs listed
RECURSIVE StrongestPair(_, _, _)
StrongestPair(matrix, pairs, best) ==
    CHOOSE last \in
        {IF Len(w[1]) = 0 THEN w[2]
         ELSE LET pair == w[1][1]
                  corr_val == matrix[pair]
                  greater ==
                      /\ pair[1] # pair[2]
                      /\ IF w[2].found THEN AbsCorrGreater(corr_val, w[2].corr)
                         ELSE ~corr_val.nan /\ corr_val.cov # 0
              IN StrongestPair(matrix, Tail(w[1]),
                               IF greater
                               THEN [found |-> TRUE, pair |-> pair, corr |-> corr_val]
                               ELSE w[2]) : w \in {<<pairs, best>>}} : TRUE

\* cleaning_result.get(key) of a list-valued key
GetList(dict, key) == IF key \in DOMAIN dict THEN dict[key] ELSE <<>>

MaxMissing(prof) == MaxOf({prof.missing[k].pct : k \in 1..Len(prof.missing)})

MissingWarning(max_missing) ==
    IF max_missing >= 300
    THEN " " \o WarningSign \o " CRITICAL - too sparse for reliable imputation"
    ELSE IF max_missing >= 150
    THEN " " \o WarningSign \o " HIGH - recommend ML imputation"
    ELSE IF max_missing >= 50
    THEN " " \o WarningSign \o " MODERATE - consider k-NN imputation"
    ELSE ""

\* method_used.replace('_', '-'), then k-NN for knn and upper case otherwise
MethodLabel(method_used) ==
    IF method_used = "knn" THEN "k-NN"
    ELSE IF method_used = "simple" THEN "SIMPLE"
    ELSE IF method_used = "random_forest" THEN "RANDOM-FOREST"
    ELSE IF method_used = "none" THEN "NONE"
    ELSE method_used

ListedColumns == 3

\* abs(max_corr) > 0.7
StrongCorr(best) == AbsCorrAbove(best.corr, 7, 10)

QualityLines(prof, outlier_result) ==
    IF Len(prof.missing) > 0 \/ outlier_result.outlier_count > 0
    THEN <<"\n## Data Quality">>
         \o (IF Len(prof.missing) > 0
             THEN LET shown == head(prof.missing, ListedColumns)
                  IN <<"- Missing: "
                       \o JoinText([k \in 1..Len(shown) |->
                                       shown[k].col \o " (" \o PctText(shown[k].pct) \o "%)"],
                                   ", ")
                       \o MissingWarning(MaxMissing(prof))>>
             ELSE <<>>)
         \o (IF outlier_result.outlier_count > 0
             THEN <<"- Outliers: " \o ToString(outlier_result.outlier_count)
                    \o " flagged (" \o outlier_result.method_used \o ")">>
             ELSE <<>>)
    ELSE <<>>

CleaningLines(cleaning_result) ==
    LET imputed_columns == GetList(cleaning_result, "imputed_columns")
        skipped_columns == GetList(cleaning_result, "skipped_columns")
    IN IF Len(imputed_columns) > 0 \/ Len(skipped_columns) > 0
       THEN <<"\n## Cleaning Applied">>
            \o (IF Len(imputed_columns) > 0
                THEN <<"- " \o MethodLabel(cleaning_result.method_used) \o " imputation: "
                       \o JoinText(head(imputed_columns, ListedColumns), ", ")>>
                ELSE <<>>)
            \o (IF Len(skipped_columns) > 0
                THEN <<"- Skipped (too sparse): "
                       \o JoinText(head(skipped_columns, ListedColumns), ", ")>>
                ELSE <<>>)
       ELSE <<>>

StatisticsLines(analysis) ==
    IF Len(analysis.statistics) > 0
    THEN LET shown == head(analysis.statistics, ListedColumns)
         IN <<"\n## Key Statistics">>
            \o [k \in 1..Len(shown) |->
                   "- **" \o shown[k].col \o "**: mean=" \o FloatText(shown[k].stats.mean)
                   \o ", std=" \o FloatText(shown[k].stats.std)]
    ELSE <<>>

InsightLines(analysis) ==
    IF HasCorrelations(analysis)
    THEN LET best == StrongestPair(analysis.correlations.matrix,
                                   PairsOf(analysis.correlations.columns), NoPair)
         IN <<"\n## Insights">>
            \o (IF best.found /\ StrongCorr(best)
                THEN <<"- Strong correlation (" \o CorrText(best.corr) \o ") between "
                       \o best.pair[1] \o " & " \o best.pair[2]>>
                ELSE <<>>)
    ELSE <<>>

\* generate_chat_report(profile, cleaning_result, outlier_result, analysis)
generate_chat_report(prof, cleaning_result, outlier_result, analysis) ==
    JoinText(<<"## Data Overview",
               "- " \o Thousands(prof.rows) \o " rows " \o TimesSign \o " "
               \o ToString(prof.cols) \o " columns">>
             \o QualityLines(prof, outlier_result)
             \o CleaningLines(cleaning_result)
             \o StatisticsLines(analysis)
             \o InsightLines(analysis),
             "\n")

\* the day datetime.now() falls on; every call of the model is made that day
Today == "2024-01-15"

\* Path(file_path).name
FileName(file_path) == JoinText(file_path.stem, "_") \o "." \o file_path.ext

\* reports/data_analysis_report_<date>_<stem>.md
ReportPath(file_path) ==
    [dir |-> ReportsDir,
     stem |-> <<"data", "analysis", "report", Today>> \o file_path.stem,
     ext |-> "md"]

\* the recommendations of lines 180-203, by their headings
Recommendations(prof, cleaning_result, outlier_result) ==
    (IF Len(prof.missing) > 0
     THEN IF MaxMissing(prof) >= 300 THEN <<"CRITICAL">>
          ELSE IF MaxMissing(prof) >= 150
          THEN <<"robust imputation">>
               \o (IF cleaning_result.method_used = "simple" THEN <<"rerun with --ml">> ELSE <<>>)
          ELSE IF MaxMissing(prof) >= 50
          THEN <<"careful handling">>
               \o (IF cleaning_result.method_used = "simple" THEN <<"rerun with --ml">> ELSE <<>>)
          ELSE <<"minimal">>
     ELSE <<>>)
    \o (IF 10 * outlier_result.outlier_count > prof.rows
        THEN <<"High outlier rate">> ELSE <<>>)

\* the detailed report, held by its sections and what each lists
DetailedReport(file_path, prof, cleaning_result, outlier_result, analysis, viz_paths) ==
    [title |-> "# Data Analysis Report: " \o FileName(file_path),
     sections |-> <<"Executive Summary", "Data Quality Assessment">>
                  \o (IF Len(GetList(cleaning_result, "imputed_columns")) > 0
                         \/ Len(GetList(cleaning_result, "skipped_columns")) > 0
                      THEN <<"Cleaning Applied">> ELSE <<>>)
                  \o <<"Statistical Summary">>
                  \o (IF Len(viz_paths) > 0 THEN <<"Visualizations">> ELSE <<>>)
                  \o <<"Recommendations">>,
     rows |-> prof.rows,
     cols |-> prof.cols,
     missing |-> prof.missing,
     outlier_count |-> outlier_result.outlier_count,
     outlier_method |-> outlier_result.method_used,
     imputation_method |-> cleaning_result.method_used,
     statistics |-> analysis.statistics,
     images |-> viz_paths,
     recommendations |-> Recommendations(prof, cleaning_result, outlier_result)]

\* generate_detailed_report(file_name, ...): the result and the reports
\* directory afterwards
generate_detailed_report(dir, file_path, prof, cleaning_result, outlier_result, analysis, viz_paths) ==
    [result |-> [status |-> "returned", report_path |-> ReportPath(file_path)],
     reports |-> (ReportPath(file_path) :>
                     DetailedReport(file_path, prof, cleaning_result, outlier_result,
                                    analysis, viz_paths)) @@ dir]

(***************************************************************************)
(* The inputs: tables, method strings, thresholds                          *)
(***************************************************************************)
MaxCols == 2

MaxFill == 9

ColNames == <<"age", "order_time", "city", "income", "score">>

FeatureNames == <<"feature_0", "feature_1", "feature_2", "feature_3", "feature_4",
                  "feature_5", "feature_6", "feature_7", "feature_8", "feature_9",
                  "feature_10", "feature_11", "feature_12", "feature_13">>

\* A column drawn from a shape [dtype, nmiss, spike]: nmiss missing cells, at
\* the head of an odd column and at the tail of an even one; the present
\* cells follow a small pattern, the last row far off it when spike is set
CellValue(j, i, R, shape) ==
    IF shape.dtype = "number"
    THEN IF shape.spike /\ i = R - (j % 2) * shape.nmiss
         THEN Unit * 40 * (1 + ((i * (j + 1)) % 5))
         ELSE Unit * (1 + ((i * (j + 1)) % 5))
    ELSE IF shape.dtype = "object" THEN 1 + (i % 3)
    ELSE i

MakeColumn(name, j, R, shape) ==
    [name |-> name,
     dtype |-> shape.dtype,
     cells |-> [i \in 1..R |->
                   IF (j % 2 = 1 /\ i <= shape.nmiss) \/ (j % 2 = 0 /\ i > R - shape.nmiss)
                   THEN NA ELSE CellValue(j, i, R, shape)]]

ImputeRows == {3, 20, 21}

ImputeShapes(R) ==
    [dtype : {"number"}, nmiss : {0, 1, 2, 3, 7, R} \cap 0..R, spike : {FALSE}]
    \cup [dtype : {"object"}, nmiss : {0, 1, R}, spike : {FALSE}]
    \cup [dtype : {"datetime"}, nmiss : {1}, spike : {FALSE}]

ImputeTables ==
    UNION {UNION {{[j \in 1..n |-> MakeColumn(ColNames[j], j, R, shapes[j])] :
                      shapes \in [1..n -> ImputeShapes(R)]} : n \in 1..MaxCols} :
              R \in ImputeRows}

DetectRows == {6, 10, 11}

DetectShapes ==
    [dtype : {"number"}, nmiss : {0, 1}, spike : BOOLEAN]
    \cup [dtype : {"object"}, nmiss : {0}, spike : {FALSE}]

FillerShape == [dtype |-> "number", nmiss |-> 0, spike |-> FALSE]

\* a numeric column holding the given whole numbers (NA for a missing cell)
NumberColumn(name, values) ==
    [name |-> name,
     dtype |-> "number",
     cells |-> [i \in 1..Len(values) |->
                   IF IsNA(values[i]) THEN NA ELSE Unit * values[i]]]

\* the table of test_iqr_outlier_detection
IqrTestTable ==
    <<NumberColumn("age", <<25, 30, 35, 40, 45, 150>>),
      NumberColumn("income", <<50000, 60000, 70000, 80000, 90000, 500000>>)>>

\* the same ages beside incomes with a missing cell and the far value first
IqrTwoOutliersTable ==
    <<NumberColumn("age", <<25, 30, 35, 40, 45, 150>>),
      NumberColumn("income", <<500000, 60000, NA, 80000, 90000, 50000>>)>>

DetectTables ==
    UNION {UNION {{<<MakeColumn(ColNames[1], 1, R, shape)>>
                       \o [k \in 1..nfill |-> MakeColumn(FeatureNames[k], k + 1, R, FillerShape)] :
                      shape \in DetectShapes} : nfill \in 0..MaxFill} :
              R \in DetectRows}
    \cup {IqrTestTable, IqrTwoOutliersTable}

\* a text column holding the given category codes (NA for a missing cell)
ObjectColumn(name, values) ==
    [name |-> name, dtype |-> "object", cells |-> values]

\* the table of test_profile_basic_data; the cities NYC, LA, Chicago are the
\* codes 1, 2, 3 and the customer ids C001..C005 the codes 1..5
ProfileTestTable ==
    <<NumberColumn("age", <<25, 30, 35, NA, 40>>),
      NumberColumn("income", <<50000, 60000, 70000, 80000, 90000>>),
      ObjectColumn("city", <<1, 2, 3, 1, 2>>),
      ObjectColumn("customer_id", <<1, 2, 3, 4, 5>>)>>

\* the table of test_profile_high_dimensional with n columns: each is range(10)
DimTable(n) ==
    [k \in 1..n |-> NumberColumn(FeatureNames[k], [i \in 1..10 |-> i - 1])]

DimTables == {DimTable(n) : n \in 0..(MaxFill + 3)}

\* one text column of R rows cycling through d values, the first nmiss cells
\* missing
CardinalityTable(R, d, nmiss) ==
    <<ObjectColumn("customer_id",
                   [i \in 1..R |-> IF i <= nmiss THEN NA ELSE 1 + (i % d)])>>

CardinalityRows == {2, 5, 64}

CardinalityTables ==
    {CardinalityTable(R, d, nmiss) :
        R \in CardinalityRows, d \in {1, 2, 3, 4, 5, 50, 51, 64}, nmiss \in {0, 1}}

\* a table with a column and no row
NoRowsTable == <<NumberColumn("age", <<>>), ObjectColumn("city", <<>>)>>

\* the table of test_correlation_analysis
CorrTestTable ==
    <<NumberColumn("x", <<1, 2, 3, 4, 5>>),
      NumberColumn("y", <<2, 4, 6, 8, 10>>),
      NumberColumn("z", <<5, 4, 3, 2, 1>>)>>

ProfileTables ==
    {ProfileTestTable, NoRowsTable} \cup DimTables \cup CardinalityTables
    \cup ImputeTables

\* the tables every operation is called on: three-row tables of each column
\* shape, the wide tables, the one-column text tables, the correlation test
CoreTables ==
    {t \in ImputeTables : NRows(t) = 3} \cup DimTables \cup CardinalityTables
    \cup {CorrTestTable}

\* "mean" stands for any string that names no method
ImputeMethodInputs == {"auto", "simple", "knn", "random_forest", "mean"}

OutlierMethodInputs == {"auto", "iqr", "knn", "isolation_forest", "zscore"}

\* 15.0, the default 30.0, and 100.0 (nothing is skipped)
ThresholdInputs == {AutoKnnBelow, DefaultThreshold, 1000}

InputPath == [dir |-> TempDir, stem |-> <<"ingested", "data">>, ext |-> "parquet"]

\* the files an operation is handed: the ingested file, or a cleaned file of
\* an earlier call
CorePaths == {InputPath, CleanedPath(InputPath)}

NoProfile == [unset |-> TRUE]

\* no run of analyze_file, an empty reports directory, no cleaner object
NoPipeline ==
    /\ runs = <<>>
    /\ reports = <<>>
    /\ cleaner = [cls |-> "none"]

NoResult == [status |-> "pending"]

(***************************************************************************)
(* The calls                                                               *)
(***************************************************************************)
InitWith(tables) ==
    /\ fs \in {(InputPath :> t) : t \in tables}
    /\ args = [op |-> "none", file_path |-> InputPath]
    /\ profile = NoProfile
    /\ result = NoResult
    /\ pc = "start"
    /\ NoPipeline

ProfileData ==
    /\ pc = "start"
    /\ profile' = profile_data(fs[args.file_path])
    /\ args' = [op |-> "profile_data", file_path |-> args.file_path]
    /\ pc' = "profiled"
    /\ UNCHANGED <<fs, result, pipeline_vars>>

ImputeMissing ==
    /\ pc = "profiled"
    /\ \E method \in ImputeMethodInputs, impute_threshold \in ThresholdInputs :
          LET out == impute_missing(fs, args.file_path, profile, method, impute_threshold)
          IN /\ args' = [op |-> "impute_missing", file_path |-> args.file_path,
                         method |-> method, impute_threshold |-> impute_threshold]
             /\ result' = out.result
             /\ fs' = out.fs
    /\ pc' = "done"
    /\ UNCHANGED <<profile, pipeline_vars>>

DetectOutliers ==
    /\ pc = "profiled"
    /\ \E method \in OutlierMethodInputs :
          \E labelled \in (IF UsesLabelling(profile, method)
                           THEN OutlierLabelings(fs[args.file_path], profile.numeric_cols)
                           ELSE {{}}) :
             /\ args' = [op |-> "detect_outliers", file_path |-> args.file_path,
                         method |-> method]
             /\ result' = detect_outliers(fs, args.file_path, profile, method, labelled)
    /\ pc' = "done"
    /\ UNCHANGED <<fs, profile, pipeline_vars>>

ImputerInit == InitWith(ImputeTables)

ImputerNext == ProfileData \/ ImputeMissing

ImputerSpec == ImputerInit /\ [][ImputerNext]_vars

DetectorInit == InitWith(DetectTables)

DetectorNext == ProfileData \/ DetectOutliers

DetectorSpec == DetectorInit /\ [][DetectorNext]_vars

AnalyzeData ==
    /\ pc = "profiled"
    /\ args' = [op |-> "analyze_data", file_path |-> args.file_path]
    /\ result' = analyze_data(fs, args.file_path, profile)
    /\ pc' = "done"
    /\ UNCHANGED <<fs, profile, pipeline_vars>>

ProfilerInit == InitWith(ProfileTables)

ProfilerNext == ProfileData

ProfilerSpec == ProfilerInit /\ [][ProfilerNext]_vars

\* the four operations, each handed a file and the profile of that file
CoreInit ==
    /\ \E file_path \in CorePaths :
           /\ fs \in {(file_path :> t) : t \in CoreTables}
           /\ args = [op |-> "none", file_path |-> file_path]
    /\ profile = NoProfile
    /\ result = NoResult
    /\ pc = "start"
    /\ NoPipeline

CoreNext == ProfileData \/ ImputeMissing \/ DetectOutliers \/ AnalyzeData

CoreSpec == CoreInit /\ [][CoreNext]_vars

\* every table, every call
Init == InitWith(ImputeTables \cup DetectTables)

Next == ProfileData \/ ImputeMissing \/ DetectOutliers

Spec == Init /\ [][Next]_vars

(***************************************************************************)
(* analyze.py: analyze_file, one action per phase; runs[r] holds the       *)
(* locals of run r and the phase it is at, and calls is the history of the *)
(* calls the run made: the file and the profile handed over, the table     *)
(* read from the file, and the table the run itself last wrote there.  The *)
(* locals of a phase are bound as the elements of singleton sets, so that  *)
(* the value of a call is computed once                                    *)
(***************************************************************************)
NoFile == [dir |-> "", stem |-> <<>>, ext |-> ""]

\* line 43 and line 44
DefaultCleaningResult == [imputed_columns |-> <<>>, method_used |-> "none"]

DefaultOutlierResult == [outlier_count |-> 0, method_used |-> "none"]

NewRun(file_path, apply_ml_cleaning, impute_threshold) ==
    [pc |-> "ingest",
     file_path |-> file_path,
     apply_ml_cleaning |-> apply_ml_cleaning,
     impute_threshold |-> impute_threshold,
     current_file |-> NoFile,
     profile |-> NoProfile,
     cleaning_result |-> DefaultCleaningResult,
     outlier_result |-> DefaultOutlierResult,
     analysis |-> NoResult,
     viz_result |-> NoResult,
     result |-> NoResult,
     error |-> "none",
     wrote |-> <<>>,
     calls |-> <<>>]

\* how a call ended: returned, or the exception it raised
Outcome(returned) == IF returned.status = "raised" THEN returned.error ELSE "returned"

Call(run, files, stage, method, path, outcome) ==
    [stage |-> stage,
     method |-> method,
     file |-> path,
     table |-> IF path \in DOMAIN files THEN files[path] ELSE <<"None">>,
     \* what the run's own last write left in the file
     own |-> IF path \in DOMAIN run.wrote THEN run.wrote[path] ELSE <<"None">>,
     profile |-> run.profile,
     outcome |-> outcome]

\* the method handed to impute_missing: line 49 and line 59
PipelineImputeMethod(apply_ml_cleaning) ==
    IF apply_ml_cleaning THEN "auto" ELSE "simple"

RunsOutlierDetection_WithoutFlag(apply_ml_cleaning, prof) == Len(prof.numeric_cols) > 0

\* lines 46 and 54: detect_outliers is called
RunsOutlierDetection(apply_ml_cleaning, prof) ==
    apply_ml_cleaning /\ Len(prof.numeric_cols) > 0

FileAfterCleaning_Ingested(current_file, clean_result) == current_file

\* lines 51 and 61: current_file = clean_result['file_path']
FileAfterCleaning(current_file, clean_result) == clean_result.file_path

AfterCleaning_Swallowed(clean_result) == "outliers"

\* an exception of impute_missing leaves analyze_file; there is no handler
AfterCleaning(clean_result) ==
    IF clean_result.status = "raised" THEN "raised" ELSE "outliers"

\* Phase 1, lines 34-35
IngestStage(r) ==
    /\ runs[r].pc = "ingest"
    /\ \E run \in {runs[r]} :
       \E ingested \in {ingest_file(fs, run.file_path)} :
       \E ingestion_result \in {ingested.result} :
       \E called \in {Call(run, fs, "ingest", "", run.file_path,
                            Outcome(ingestion_result))} :
          /\ fs' = ingested.fs
          /\ runs' = [runs EXCEPT ![r] =
                IF ingestion_result.status = "raised"
                THEN [run EXCEPT !.pc = "raised",
                                 !.error = ingestion_result.error,
                                 !.calls = Append(@, called)]
                ELSE [run EXCEPT !.pc = "profile",
                                 !.current_file = ingestion_result.file_path,
                                 !.wrote = (ingestion_result.file_path
                                               :> ingested.fs[ingestion_result.file_path]) @@ @,
                                 !.calls = Append(@, called)]]
    /\ UNCHANGED <<args, profile, result, pc, reports, cleaner>>

\* Phase 2, line 39
ProfileStage(r) ==
    /\ runs[r].pc = "profile"
    /\ \E run \in {runs[r]} :
          runs' = [runs EXCEPT ![r] =
             [run EXCEPT !.pc = "clean",
                         !.profile = profile_data(fs[run.current_file]),
                         !.calls = Append(@, Call(run, fs, "profile", "", run.current_file,
                                                  "returned"))]]
    /\ UNCHANGED <<fs, args, profile, result, pc, reports, cleaner>>

\* Phase 3, imputation: lines 48-52 and 58-62
CleanStage(r) ==
    /\ runs[r].pc = "clean"
    /\ \E run \in {runs[r]} :
          IF Len(run.profile.missing) = 0
          THEN /\ runs' = [runs EXCEPT ![r].pc = "outliers"]
               /\ fs' = fs
          ELSE \E imputed \in {impute_missing(fs, run.current_file, run.profile,
                                              PipelineImputeMethod(run.apply_ml_cleaning),
                                              run.impute_threshold)} :
               \E clean_result \in {imputed.result} :
               \E called \in {Call(run, fs, "impute",
                                   PipelineImputeMethod(run.apply_ml_cleaning),
                                   run.current_file, Outcome(clean_result))} :
               /\ fs' = imputed.fs
               /\ runs' = [runs EXCEPT ![r] =
                     IF clean_result.status = "raised"
                     THEN [run EXCEPT !.pc = AfterCleaning(clean_result),
                                      !.error = clean_result.error,
                                      !.calls = Append(@, called)]
                     ELSE [run EXCEPT !.pc = AfterCleaning(clean_result),
                                      !.current_file =
                                          FileAfterCleaning(run.current_file, clean_result),
                                      !.cleaning_result = clean_result,
                                      !.wrote =
                                          IF clean_result.file_path = run.current_file THEN @
                                          ELSE (clean_result.file_path
                                                   :> imputed.fs[clean_result.file_path]) @@ @,
                                      !.calls = Append(@, called)]]
    /\ UNCHANGED <<args, profile, result, pc, reports, cleaner>>

\* Phase 3, outliers: lines 54-55
OutlierStage(r) ==
    /\ runs[r].pc = "outliers"
    /\ \E run \in {runs[r]} :
          IF RunsOutlierDetection(run.apply_ml_cleaning, run.profile)
          THEN \E labelled \in (IF UsesLabelling(run.profile, "auto")
                                THEN OutlierLabelings(fs[run.current_file],
                                                      run.profile.numeric_cols)
                                ELSE {{}}) :
               \E outlier_result \in {detect_outliers(fs, run.current_file, run.profile,
                                                      "auto", labelled)} :
                     runs' = [runs EXCEPT ![r] =
                        [run EXCEPT !.pc = "analyze",
                                    !.outlier_result = outlier_result,
                                    !.calls = Append(@, Call(run, fs, "outliers", "auto",
                                                             run.current_file,
                                                             Outcome(outlier_result)))]]
          ELSE runs' = [runs EXCEPT ![r].pc = "analyze"]
    /\ UNCHANGED <<fs, args, profile, result, pc, reports, cleaner>>

\* Phase 4, line 66
AnalyzeStage(r) ==
    /\ runs[r].pc = "analyze"
    /\ \E run \in {runs[r]} :
          runs' = [runs EXCEPT ![r] =
             [run EXCEPT !.pc = "visualize",
                         !.analysis = analyze_data(fs, run.current_file, run.profile),
                         !.calls = Append(@, Call(run, fs, "analyze", "", run.current_file,
                                                  "returned"))]]
    /\ UNCHANGED <<fs, args, profile, result, pc, reports, cleaner>>

\* Phase 5, line 70
VisualizeStage(r) ==
    /\ runs[r].pc = "visualize"
    /\ \E run \in {runs[r]} :
       \E drawn \in {generate_visualizations(reports, run.profile, run.analysis)} :
          /\ reports' = drawn.reports
          /\ runs' = [runs EXCEPT ![r] =
                [run EXCEPT !.pc = "report",
                            !.viz_result = drawn.result,
                            !.calls = Append(@, Call(run, fs, "visualize", "",
                                                     run.current_file, "returned"))]]
    /\ UNCHANGED <<fs, args, profile, result, pc, cleaner>>

HighDimensionalCols == 5

\* lines 91-104: the refinement suggestions of a run without the flag
Suggestions(prof) ==
    (IF Len(prof.missing) > 0
     THEN IF MaxMissing(prof) >= 300
          THEN <<WarningSign \o " CRITICAL: " \o PctText(MaxMissing(prof))
                 \o "% missing - consider dropping columns or collecting more data">>
          ELSE IF MaxMissing(prof) >= 150
          THEN <<"Apply Random Forest imputation (" \o PctText(MaxMissing(prof))
                 \o "% missing - preserves non-linear relationships)">>
          ELSE IF MaxMissing(prof) >= 50
          THEN <<"Apply k-NN imputation (" \o PctText(MaxMissing(prof))
                 \o "% missing - preserves local structure)">>
          ELSE <<>>
     ELSE <<>>)
    \o (IF Len(prof.numeric_cols) >= HighDimensionalCols
        THEN <<"Run Isolation Forest outlier detection (high-dimensional data - catches complex anomalies)">>
        ELSE <<>>)

\* Phase 6 and the return, lines 74-107
ReportStage(r) ==
    /\ runs[r].pc = "report"
    /\ \E run \in {runs[r]} :
       \E chat_report \in {generate_chat_report(run.profile, run.cleaning_result,
                                                run.outlier_result, run.analysis)} :
       \E detailed \in {generate_detailed_report(reports, run.file_path, run.profile,
                                                 run.cleaning_result, run.outlier_result,
                                                 run.analysis,
                                                 run.viz_result.visualizations)} :
          /\ reports' = detailed.reports
          /\ runs' = [runs EXCEPT ![r] =
                [run EXCEPT !.pc = "returned",
                            !.result =
                                IF run.apply_ml_cleaning
                                THEN [status |-> "returned",
                                      chat_report |-> chat_report,
                                      detailed_report_path |-> detailed.result.report_path,
                                      visualizations |-> run.viz_result.visualizations]
                                ELSE [status |-> "returned",
                                      chat_report |-> chat_report,
                                      detailed_report_path |-> detailed.result.report_path,
                                      visualizations |-> run.viz_result.visualizations,
                                      refinement_options |-> Suggestions(run.profile)],
                            !.calls = Append(@, Call(run, fs, "report", "", run.current_file,
                                                     "returned"))]]
    /\ UNCHANGED <<fs, args, profile, result, pc, cleaner>>

\* the input files of the runs
SalesCsv == [dir |-> "data", stem |-> <<"sales">>, ext |-> "csv"]

\* a suffix without a loader, a path that does not exist, a directory
NotesTxt == [dir |-> "data", stem |-> <<"notes">>, ext |-> "txt"]

AbsentCsv == [dir |-> "data", stem |-> <<"absent">>, ext |-> "csv"]

FolderCsv == [dir |-> "data", stem |-> <<"folder">>, ext |-> "csv"]

SourcePaths == {SalesCsv, NotesTxt, AbsentCsv, FolderCsv}

\* ages with one far value beside small scores
SpikeTable ==
    <<NumberColumn("age", <<5, 6, 7, 8, 9, 30>>),
      NumberColumn("score", <<1, 2, 3, 4, 5, 6>>)>>

\* three columns with headers of some hundred and fifty characters, a
\* missing cell in each
LongNamesTable ==
    LET stem == "_annual_household_income_before_tax_and_transfers"
        LongName(tag) == tag \o stem \o stem \o stem
    IN <<NumberColumn(LongName("first"), <<NA, 2, 3, 4, 5>>),
         NumberColumn(LongName("second"), <<2, NA, 6, 8, 10>>),
         [name |-> LongName("third"), dtype |-> "object", cells |-> <<1, 2, NA, 1, 2>>]>>

\* the tables of twenty rows and the test tables
PipelineTables ==
    {t \in ImputeTables : NRows(t) = 20}
    \cup {SpikeTable, CorrTestTable, LongNamesTable}

\* one run of analyze_file on one input
PipelineInit ==
    /\ args = [op |-> "analyze_file"]
    /\ profile = NoProfile
    /\ result = NoResult
    /\ pc = "pipeline"
    /\ reports = <<>>
    /\ cleaner = [cls |-> "none"]
    /\ \E file_path \in SourcePaths :
          \E t \in (IF file_path = SalesCsv THEN PipelineTables ELSE {SpikeTable}) :
             \E apply_ml_cleaning \in BOOLEAN :
                \E impute_threshold \in ThresholdInputs :
                   /\ fs = (SalesCsv :> t) @@ (NotesTxt :> t) @@ (FolderCsv :> DirectoryEntry)
                   /\ runs = <<NewRun(file_path, apply_ml_cleaning, impute_threshold)>>

\* some run takes its next step
PipelineNext ==
    \/ \E r \in DOMAIN runs : IngestStage(r)
    \/ \E r \in DOMAIN runs : ProfileStage(r)
    \/ \E r \in DOMAIN runs : CleanStage(r)
    \/ \E r \in DOMAIN runs : OutlierStage(r)
    \/ \E r \in DOMAIN runs : AnalyzeStage(r)
    \/ \E r \in DOMAIN runs : VisualizeStage(r)
    \/ \E r \in DOMAIN runs : ReportStage(r)

PipelineSpec == PipelineInit /\ [][PipelineNext]_vars

\* inputs of a second run: the same stem in another directory, with another
\* suffix, or both; and another stem
SecondPaths ==
    {[dir |-> "archive", stem |-> <<"sales">>, ext |-> "csv"],
     [dir |-> "data", stem |-> <<"sales">>, ext |-> "json"],
     [dir |-> "archive", stem |-> <<"sales">>, ext |-> "json"],
     [dir |-> "data", stem |-> <<"orders">>, ext |-> "csv"]}

\* two tables of one schema
TwoRunTables ==
    {<<NumberColumn("age", <<25, NA, 35, 40, 45>>),
       NumberColumn("score", <<1, 2, 3, 4, 5>>)>>,
     <<NumberColumn("age", <<50, 60, 70, NA, 90>>),
       NumberColumn("score", <<5, 3, 4, 1, 2>>)>>}

\* two runs of analyze_file at once, as two processes started in one
\* directory, each on its own input
TwoRunsInit ==
    /\ args = [op |-> "analyze_file"]
    /\ profile = NoProfile
    /\ result = NoResult
    /\ pc = "pipeline"
    /\ reports = <<>>
    /\ cleaner = [cls |-> "none"]
    /\ \E second \in SecondPaths :
          \E first_table \in TwoRunTables, second_table \in TwoRunTables :
             \E first_ml \in BOOLEAN, second_ml \in BOOLEAN :
                /\ fs = (SalesCsv :> first_table) @@ (second :> second_table)
                /\ runs = <<NewRun(SalesCsv, first_ml, DefaultThreshold),
                            NewRun(second, second_ml, DefaultThreshold)>>

TwoRunsSpec == TwoRunsInit /\ [][PipelineNext]_vars


(***************************************************************************)
(* Madagascar_ML_Targeting/src/cleaning: IRDataCleaner, MRDataCleaner and  *)
(* PRDataCleaner.  A table is held by its column names in order; cleaner   *)
(* is one object: its class, its files, self.df, the files it wrote and    *)
(* the history of the calls made on it.                                    *)
(***************************************************************************)
CleanerClasses == {"IR", "MR", "PR"}

\* self.df = None
NoTable == [unset |-> TRUE]

TableOf(columns) == [unset |-> FALSE, columns |-> columns]

\* the columns the derivations of clean_data read, in the order of first use
RequiredColumns(cls) ==
    IF cls = "IR"
    THEN <<"v005", "v001", "v024", "district_temp", "v502", "v743a", "v743b", "v743d",
           "v632", "v213", "v312", "v632a", "b19_01", "m2a_1", "m2b_1", "m2c_1", "m2d_1",
           "m2e_1", "m2f_1", "m2g_1", "m2h_1", "m2i_1", "m2j_1", "m2k_1", "m2l_1", "m2m_1",
           "v717">>
    ELSE IF cls = "MR"
    THEN <<"mv005", "mv001", "mv024", "district_temp", "mv155", "mv106", "mv731", "mv717",
           "mv719">>
    ELSE <<"hc70", "hc71", "hc72", "hv005", "hv103">>

\* the keys of new_cols, in the order of insertion
NewColumns(cls) ==
    IF cls = "IR"
    THEN <<"wt", "cluster_number", "region", "district", "we_decide_all", "fp_decyes_wmn",
           "fp_decno_wmn", "fp_decno_nonuser", "age", "rh_anc_pv", "anc_pvskill",
           "woman_occup", "wmn_occup_not_work", "wmn_occup_agric", "wmn_occup_sales",
           "wmn_occup_unskill", "wmn_occup_other">>
    ELSE IF cls = "MR"
    THEN <<"wt", "cluster_number", "region", "district", "rc_litr_cats", "liter_higher_sec",
           "liter_whole_sentence", "liter_part_sentence", "liter_cannot_read",
           "liter_no_card", "liter_blind", "rc_litr", "rc_empl", "man_occup",
           "mn_occup_not_work", "mn_occup_agric", "mn_occup_sales", "mn_occup_unskill",
           "mn_occup_other", "rc_empl_type">>
    ELSE <<"wt", "nt_ch_sev_stunt", "nt_ch_stunt", "haz", "nt_ch_mean_haz", "nt_ch_sev_wast",
           "nt_ch_wast", "nt_ch_ovwt_ht", "whz", "nt_ch_mean_whz", "nt_ch_sev_underwt",
           "nt_ch_underwt", "nt_ch_ovwt_age", "waz", "nt_ch_mean_waz">>

\* the literal list columns_to_keep of keep_variables
KeptColumns(cls) ==
    IF cls = "IR"
    THEN <<"v208", "v213", "b19_01", "v438", "v445", "v106", "v155", "v731", "v717", "v170",
           "wt", "cluster_number", "region", "district_temp", "pulse_study", "we_decide_all",
           "fp_decyes_wmn", "fp_decno_wmn", "rh_anc_pv", "anc_pvskill", "fp_decno_nonuser",
           "woman_occup">>
    ELSE IF cls = "MR"
    THEN <<"mv106", "mv155", "mv731", "mv717", "mv170", "wt", "cluster_number", "region",
           "district_temp", "pulse_study", "rc_litr_cats", "liter_higher_sec",
           "liter_whole_sentence", "liter_part_sentence", "liter_cannot_read",
           "liter_no_card", "liter_blind", "rc_litr", "rc_empl", "man_occup",
           "mn_occup_not_work", "mn_occup_agric", "mn_occup_sales", "mn_occup_unskill",
           "mn_occup_other", "rc_empl_type">>
    ELSE <<"hv001", "hv002", "hc1", "hc70", "hc71", "hc72", "hv103", "wt", "nt_ch_sev_stunt",
           "nt_ch_stunt", "haz", "nt_ch_mean_haz", "nt_ch_sev_wast", "nt_ch_wast",
           "nt_ch_ovwt_ht", "whz", "nt_ch_mean_whz", "nt_ch_sev_underwt", "nt_ch_underwt",
           "nt_ch_ovwt_age", "waz", "nt_ch_mean_waz">>

\* col.startswith('wmn_occup_'), over the column names of the model
StartsWithWmnOccup(col) ==
    col \in {"wmn_occup_not_work", "wmn_occup_agric", "wmn_occup_sales",
             "wmn_occup_unskill", "wmn_occup_other", "wmn_occup_1"}

\* list(dict.fromkeys(names)): the first occurrence of each name
WithoutDuplicates(names) ==
    LET first == {k \in 1..Len(names) : \A j \in 1..(k - 1) : names[j] # names[k]}
        Nth(n) == CHOOSE k \in first : Cardinality({j \in first : j < k}) = n - 1
    IN [n \in 1..Cardinality(first) |-> names[Nth(n)]]

\* df.assign(**new_cols): a column that exists keeps its place, the others
\* are appended in order
AssignColumns(columns, new_cols) ==
    columns \o SelectSeq(new_cols, LAMBDA col : col \notin Range(columns))

\* the key on which load_data merges the district file
ClusterColumn(cls) == IF cls = "IR" THEN "v001" ELSE "mv001"

ColumnsToKeep_FixedOnly(cls, columns) == KeptColumns(cls)

\* columns_to_keep of keep_variables; IRDataCleaner extends the list with the
\* wmn_occup_ columns of the table
ColumnsToKeep(cls, columns) ==
    IF cls = "IR"
    THEN WithoutDuplicates(KeptColumns(cls) \o SelectSeq(columns, StartsWithWmnOccup))
    ELSE KeptColumns(cls)

\* a raw survey file with the columns clean_data and keep_variables name
FullRaw(cls) ==
    <<"caseid">> \o RequiredColumns(cls)
    \o SelectSeq(KeptColumns(cls),
                 LAMBDA col : col \notin Range(RequiredColumns(cls))
                              /\ col \notin Range(NewColumns(cls))
                              /\ col \notin {"district_temp", "pulse_study"})

\* the files a cleaner is pointed at: the full file, a file without one of
\* the columns clean_data reads, a file that already has a wmn_occup_ column,
\* and a path without a file
NoSuchFile == <<"No such file">>

RawFiles(cls) ==
    {FullRaw(cls),
     SelectSeq(FullRaw(cls), LAMBDA col : col # RequiredColumns(cls)[Len(RequiredColumns(cls))]),
     FullRaw(cls) \o <<"wmn_occup_1">>,
     NoSuchFile}

OutputPath == [dir |-> "cleaned", stem |-> <<"data", "clean">>, ext |-> "csv"]

\* __init__
NewCleaner(cls, raw, district_exists) ==
    [cls |-> cls,
     raw |-> raw,
     district_exists |-> district_exists,
     df |-> NoTable,
     written |-> <<>>,
     history |-> <<>>]

\* the call is added to the history with the table it found
Called(c, op, outcome) ==
    Append(c.history, [op |-> op, outcome |-> outcome, before |-> c.df])

\* load_data(): how it ends and self.df afterwards
load_data(c) ==
    IF c.raw = NoSuchFile
    THEN [outcome |-> "FileNotFoundError", df |-> c.df]
    ELSE IF c.cls = "PR"
    THEN [outcome |-> "returned", df |-> TableOf(c.raw)]
    ELSE IF c.district_exists
    THEN IF ClusterColumn(c.cls) \in Range(c.raw)
         THEN [outcome |-> "returned",
               df |-> TableOf(c.raw \o <<"cluster_number_dist", "district_temp",
                                         "pulse_study">>)]
         ELSE [outcome |-> "KeyError", df |-> c.df]
    ELSE [outcome |-> "returned",
          df |-> TableOf(AssignColumns(c.raw, <<"district_temp", "pulse_study">>))]

\* clean_data()
clean_data(c) ==
    IF c.df = NoTable
    THEN [outcome |-> "ValueError", df |-> c.df]
    ELSE IF \E k \in 1..Len(RequiredColumns(c.cls)) :
               RequiredColumns(c.cls)[k] \notin Range(c.df.columns)
    THEN [outcome |-> "KeyError", df |-> c.df]
    ELSE [outcome |-> "returned",
          df |-> TableOf(AssignColumns(c.df.columns, NewColumns(c.cls)))]

\* keep_variables(): the missing columns are added as NaN, then the table is
\* cut to columns_to_keep
keep_variables(c) ==
    IF c.df = NoTable
    THEN [outcome |-> "ValueError", df |-> c.df]
    ELSE [outcome |-> "returned", df |-> TableOf(ColumnsToKeep(c.cls, c.df.columns))]

\* save_data(output_path_csv): how it ends and the files afterwards
save_data(c, output_path_csv) ==
    IF c.df = NoTable
    THEN [outcome |-> "ValueError", written |-> c.written]
    ELSE [outcome |-> "returned",
          written |-> (output_path_csv :> c.df.columns) @@ c.written]

MaxCalls == 4

LoadData ==
    /\ cleaner.cls \in CleanerClasses
    /\ Len(cleaner.history) < MaxCalls
    /\ \E done \in {load_data(cleaner)} :
          cleaner' = [cleaner EXCEPT !.df = done.df,
                                     !.history = Called(cleaner, "load_data", done.outcome)]
    /\ UNCHANGED <<fs, args, profile, result, pc, runs, reports>>

CleanData ==
    /\ cleaner.cls \in CleanerClasses
    /\ Len(cleaner.history) < MaxCalls
    /\ \E done \in {clean_data(cleaner)} :
          cleaner' = [cleaner EXCEPT !.df = done.df,
                                     !.history = Called(cleaner, "clean_data", done.outcome)]
    /\ UNCHANGED <<fs, args, profile, result, pc, runs, reports>>

KeepVariables ==
    /\ cleaner.cls \in CleanerClasses
    /\ Len(cleaner.history) < MaxCalls
    /\ \E done \in {keep_variables(cleaner)} :
          cleaner' = [cleaner EXCEPT !.df = done.df,
                                     !.history = Called(cleaner, "keep_variables",
                                                        done.outcome)]
    /\ UNCHANGED <<fs, args, profile, result, pc, runs, reports>>

SaveData ==
    /\ cleaner.cls \in CleanerClasses
    /\ Len(cleaner.history) < MaxCalls
    /\ \E done \in {save_data(cleaner, OutputPath)} :
          cleaner' = [cleaner EXCEPT !.written = done.written,
                                     !.history = Called(cleaner, "save_data", done.outcome)]
    /\ UNCHANGED <<fs, args, profile, result, pc, runs, reports>>

\* a cleaner object just constructed, before any call
CleanerInit ==
    /\ fs = <<>>
    /\ args = [op |-> "none"]
    /\ profile = NoProfile
    /\ result = NoResult
    /\ pc = "cleaner"
    /\ runs = <<>>
    /\ reports = <<>>
    /\ \E cls \in CleanerClasses :
          \E raw \in RawFiles(cls) :
             \E district_exists \in BOOLEAN :
                cleaner = NewCleaner(cls, raw, district_exists)

CleanerNext == LoadData \/ CleanData \/ KeepVariables \/ SaveData

CleanerSpec == CleanerInit /\ [][CleanerNext]_vars

(***************************************************************************)
(* Properties of impute_missing                                            *)
(***************************************************************************)
ImputeCalled == pc = "done" /\ args.op = "impute_missing"

ImputeReturned == ImputeCalled /\ result.status = "returned"

ColumnNamed(df, name) == df[ColIndex(df, name)]

\* the missing-percentages of the columns at or below the threshold of the call
EligiblePcts ==
    {profile.missing[j].pct : j \in {k \in 1..Len(profile.missing) :
                                        profile.missing[k].pct <= args.impute_threshold}}

AutoImputeReturned == ImputeReturned /\ args.method = "auto" /\ EligiblePcts # {}

\* C1: a column whose missing-percentage is above the threshold is never
\* listed in imputed_columns, and each of its cells missing in the input is
\* still missing in the table impute_missing returns, for every method.
C1_SkippedColumnsUntouched ==
    ImputeReturned =>
        \A j \in 1..Len(profile.missing) :
            profile.missing[j].pct > args.impute_threshold =>
                LET name == profile.missing[j].col
                IN /\ name \notin Range(result.imputed_columns)
                   /\ \A i \in Missing(ColumnNamed(fs[InputPath], name)) :
                          IsNA(ColumnNamed(fs[result.file_path], name).cells[i])

\* C2: after simple or knn imputation every column reported in
\* imputed_columns has no missing cell in the returned table.
C2_EligibleColumnsFilled ==
    (ImputeReturned /\ result.method_used \in {"simple", "knn"}) =>
        \A name \in Range(result.imputed_columns) :
            Missing(ColumnNamed(fs[result.file_path], name)) = {}

\* C3: when no column of profile.missing is at or below the threshold (the
\* map is empty, or every column is above it), impute_missing returns the
\* input path, writes no file, reports no imputed column and method 'none',
\* whatever the method argument is.
C3_NoEligibleUnchanged ==
    [][(/\ pc = "profiled"
        /\ args'.op = "impute_missing"
        /\ \A j \in 1..Len(profile.missing) :
              profile.missing[j].pct > args'.impute_threshold)
       => (/\ result'.status = "returned"
           /\ result'.file_path = args'.file_path
           /\ fs' = fs
           /\ result'.imputed_columns = <<>>
           /\ result'.method_used = "none")]_vars

\* an unknown method string, every missing column above the threshold
C3_Witness ==
    /\ ImputeReturned
    /\ args.method = "mean"
    /\ Len(profile.missing) > 0
    /\ EligiblePcts = {}
    /\ result.method_used = "none"
    /\ Len(result.skipped_columns) > 0

\* C4: with method auto the strategy follows the largest missing-percentage
\* among the eligible columns only: below 5.0 simple, 5.0 to 14.9 knn, 15.0
\* or more random_forest.
C4_AutoSelection ==
    AutoImputeReturned =>
        LET mx == MaxOf(EligiblePcts)
        IN /\ mx < 50 => result.method_used = "simple"
           /\ (50 <= mx /\ mx <= 149) => result.method_used = "knn"
           /\ mx >= 150 => result.method_used = "random_forest"

\* a skipped column with more missing than every eligible one, and knn chosen
C4_Witness ==
    /\ AutoImputeReturned
    /\ \E j \in 1..Len(profile.missing) :
          /\ profile.missing[j].pct > args.impute_threshold
          /\ profile.missing[j].pct >= 150
    /\ MaxOf(EligiblePcts) >= 50
    /\ MaxOf(EligiblePcts) <= 149
    /\ result.method_used = "knn"

\* C5 as stated: with method auto, random_forest only for a maximum strictly
\* above 15, and knn for every maximum from 5 to 15, 15.0 included.
C5_KnnUpToFifteenIncluded ==
    AutoImputeReturned =>
        LET mx == MaxOf(EligiblePcts)
        IN /\ result.method_used = "random_forest" => mx > 150
           /\ (50 <= mx /\ mx <= 150) => result.method_used = "knn"

\* C5 amended: with method auto, random_forest only for a maximum of 15.0 or
\* more, 15.0 itself selecting random_forest, and knn for every maximum from
\* 5.0 up to but not including 15.0.
C5_RandomForestFromFifteen ==
    AutoImputeReturned =>
        LET mx == MaxOf(EligiblePcts)
        IN /\ result.method_used = "random_forest" => mx >= 150
           /\ mx = 150 => result.method_used = "random_forest"
           /\ (50 <= mx /\ mx < 150) => result.method_used = "knn"

C5_Witness ==
    /\ AutoImputeReturned
    /\ MaxOf(EligiblePcts) = 150
    /\ result.method_used = "random_forest"

\* C6: method_used is the strategy applied after auto is resolved: one of
\* none, simple, knn, random_forest, never 'auto'; a named method is reported
\* under its own name (random_forest as random_forest, not knn), 'none' is
\* reported exactly when nothing was eligible, and auto reports one of the
\* three strategies.
C6_MethodUsedIsApplied ==
    ImputeReturned =>
        /\ result.method_used \in {"none", "simple", "knn", "random_forest"}
        /\ (result.method_used = "none") <=> (EligiblePcts = {})
        /\ (EligiblePcts # {} /\ args.method # "auto") => result.method_used = args.method
        /\ (result.method_used = "random_forest") =>
               (args.method = "random_forest"
                \/ (args.method = "auto" /\ MaxOf(EligiblePcts) >= 150))

\* auto resolved to random_forest, and a cleaned table was written
C6_Witness ==
    /\ ImputeReturned
    /\ args.method = "auto"
    /\ result.method_used = "random_forest"
    /\ result.file_path # args.file_path
    /\ result.file_path \in DOMAIN fs

\* C7: a method string outside auto, simple, knn, random_forest makes
\* impute_missing fail, for every table and profile, and no cleaned table is
\* written.
C7_UnknownImputeMethodFails ==
    (ImputeCalled /\ args.method \notin {"auto", "simple", "knn", "random_forest"}) =>
        /\ result.status = "raised"
        /\ DOMAIN fs = {args.file_path}

(***************************************************************************)
(* Properties of detect_outliers                                           *)
(***************************************************************************)
DetectCalled == pc = "done" /\ args.op = "detect_outliers"

DetectReturned == DetectCalled /\ result.status = "returned"

\* the columns of the table that hold numbers
NumberColumns(df) == {j \in 1..Len(df) : df[j].dtype = "number"}

\* C8: a method string outside auto, iqr, knn, isolation_forest makes
\* detect_outliers fail, for every table and profile, also when the profile
\* has no numeric column.
C8_UnknownOutlierMethodFails ==
    (DetectCalled /\ args.method \notin {"auto", "iqr", "knn", "isolation_forest"}) =>
        result.status = "raised"

\* C9: with method auto and n numeric columns, detect_outliers reports iqr
\* for n in 1..4, knn for n in 5..9 and isolation_forest for n >= 10.
C9_AutoOutlierSelection ==
    (DetectReturned /\ args.method = "auto") =>
        LET n == Cardinality(NumberColumns(fs[args.file_path]))
        IN /\ n = Len(profile.numeric_cols)
           /\ (1 <= n /\ n <= 4) => result.method_used = "iqr"
           /\ (5 <= n /\ n <= 9) => result.method_used = "knn"
           /\ n >= 10 => result.method_used = "isolation_forest"

C9_Witness ==
    /\ DetectReturned
    /\ args.method = "auto"
    /\ Len(profile.numeric_cols) = 10
    /\ result.method_used = "isolation_forest"

\* C10: with no numeric column in the profile, detect_outliers returns no
\* outlier index, a count of 0 and method 'none', for each valid method.
C10_NoNumericColumnsNone ==
    (/\ DetectCalled
     /\ Len(profile.numeric_cols) = 0
     /\ args.method \in {"auto", "iqr", "knn", "isolation_forest"})
    => (/\ result.status = "returned"
        /\ result.outlier_indices = <<>>
        /\ result.outlier_count = 0
        /\ result.method_used = "none")

\* isolation_forest asked for a table of ten rows without a numeric column
C10_Witness ==
    /\ DetectReturned
    /\ Len(profile.numeric_cols) = 0
    /\ args.method = "isolation_forest"
    /\ NRows(fs[args.file_path]) >= MinCompleteRows
    /\ result.method_used = "none"

\* the k-th smallest of the present values of a column, counted with repeats
RankedValue(col, k) ==
    LET P == Present(col)
    IN CHOOSE v \in {col.cells[i] : i \in P} :
           /\ Cardinality({i \in P : col.cells[i] < v}) < k
           /\ k <= Cardinality({i \in P : col.cells[i] <= v})

\* four times the quartile at k / 4 of the present values: the weighted mean of
\* the two ranked values around position k * (n - 1) / 4
Quartile4(col, k) ==
    LET n == Cardinality(Present(col))
        below == (k * (n - 1)) \div 4
        weight == (k * (n - 1)) % 4
    IN IF weight = 0 THEN 4 * RankedValue(col, below + 1)
       ELSE (4 - weight) * RankedValue(col, below + 1)
            + weight * RankedValue(col, below + 2)

\* the cell of row i lies strictly below Q1 - 1.5 * IQR or strictly above
\* Q3 + 1.5 * IQR of its column (both sides multiplied by 8)
OutsideFences(col, i) ==
    /\ i \in Present(col)
    /\ \/ 8 * col.cells[i] < 5 * Quartile4(col, 1) - 3 * Quartile4(col, 3)
       \/ 8 * col.cells[i] > 5 * Quartile4(col, 3) - 3 * Quartile4(col, 1)

IqrReturned == DetectReturned /\ result.method_used = "iqr"

\* C11: with method iqr, a row is in outlier_indices exactly when, in at least
\* one numeric column, its value is present and lies strictly outside
\* [Q1 - 1.5 * IQR, Q3 + 1.5 * IQR] of the column's present values; the table
\* with ages 25..45, 150 and incomes 50000..90000, 500000 flags index 5 only.
C11_IqrFences ==
    IqrReturned =>
        LET df == fs[args.file_path]
        IN /\ \A i \in 1..NRows(df) :
                  (i - 1 \in Range(result.outlier_indices))
                      <=> \E j \in NumberColumns(df) : OutsideFences(df[j], i)
           /\ df = IqrTestTable => result.outlier_indices = <<5>>

\* the test table under method iqr: index 5, and no other, is flagged
C11_Witness ==
    /\ IqrReturned
    /\ args.method = "iqr"
    /\ fs[args.file_path] = IqrTestTable
    /\ result.outlier_indices = <<5>>

\* C12: in every result of detect_outliers the outlier indices are strictly
\* ascending, each is a row position of the table, and outlier_count is their
\* number.
C12_IndicesAscendingValid ==
    DetectReturned =>
        LET idx == result.outlier_indices
        IN /\ \A a, b \in 1..Len(idx) : a < b => idx[a] < idx[b]
           /\ \A a \in 1..Len(idx) :
                  0 <= idx[a] /\ idx[a] < NRows(fs[args.file_path])
           /\ result.outlier_count = Len(idx)

\* two rows flagged, by different columns, the later column flagging the
\* earlier row
C12_Witness ==
    /\ DetectReturned
    /\ fs[args.file_path] = IqrTwoOutliersTable
    /\ result.outlier_indices = <<0, 5>>
    /\ result.outlier_count = 2

\* the rows of the table without a missing cell in a column that holds numbers
RowsWithoutMissingNumber(df) ==
    {i \in 1..NRows(df) : \A j \in NumberColumns(df) : ~IsNA(df[j].cells[i])}

\* detect_outliers was called with knn or isolation_forest, directly or through
\* auto, on a table with a numeric column
ModelBasedCalled ==
    /\ DetectCalled
    /\ Len(profile.numeric_cols) > 0
    /\ \/ args.method \in {"knn", "isolation_forest"}
       \/ args.method = "auto" /\ Len(profile.numeric_cols) >= AutoIqrBelow

\* C13: knn and isolation_forest, asked for directly or chosen by auto, return
\* without error; with fewer than 10 rows free of missing numeric values they
\* return no index and a count of 0; and they never flag a row that has a
\* missing numeric value.
C13_ModelBasedNeedTenCompleteRows ==
    ModelBasedCalled =>
        LET df == fs[args.file_path]
            complete == RowsWithoutMissingNumber(df)
        IN /\ result.status = "returned"
           /\ result.method_used \in {"knn", "isolation_forest"}
           /\ Cardinality(complete) < 10 =>
                  result.outlier_indices = <<>> /\ result.outlier_count = 0
           /\ \A a \in 1..Len(result.outlier_indices) :
                  result.outlier_indices[a] + 1 \in complete

\* ten rows of which one has a missing number: nine complete rows, nothing
\* flagged
C13_Witness ==
    /\ ModelBasedCalled
    /\ args.method = "knn"
    /\ NRows(fs[args.file_path]) = 10
    /\ Cardinality(RowsWithoutMissingNumber(fs[args.file_path])) = 9
    /\ result.status = "returned"
    /\ result.outlier_indices = <<>>

(***************************************************************************)
(* Properties of profile_data                                              *)
(***************************************************************************)
ProfileCalled == pc = "profiled" /\ args.op = "profile_data"

\* the number of missing cells of column j
MissingCount(df, j) == Cardinality({i \in 1..Len(df[j].cells) : IsNA(df[j].cells[i])})

\* the number of distinct present values of column j
DistinctCount(df, j) ==
    Cardinality({df[j].cells[i] : i \in 1..Len(df[j].cells)} \ {NA})

\* C15: the profile's rows and cols are the table's row and column counts; a
\* column is a key of profile.missing exactly when it has a missing cell, and
\* its value is missing_count / rows * 100 rounded to one decimal; one missing
\* cell in the 5-row, 4-column test table gives missing = {age: 20.0}.
C15_MissingPercentages ==
    ProfileCalled =>
        LET df == fs[args.file_path]
        IN /\ profile.cols = Len(df)
           /\ \A j \in 1..Len(df) :
                  /\ Len(df[j].cells) = profile.rows
                  /\ Cardinality({k \in 1..Len(profile.missing) :
                                     profile.missing[k].col = df[j].name})
                         = (IF MissingCount(df, j) >= 1 THEN 1 ELSE 0)
           /\ \A k \in 1..Len(profile.missing) :
                  \E j \in 1..Len(df) :
                      /\ df[j].name = profile.missing[k].col
                      \* the tenth of a percent nearest to the exact ratio
                      /\ 2 * profile.missing[k].pct * profile.rows
                             - 2000 * MissingCount(df, j) <= profile.rows
                      /\ 2000 * MissingCount(df, j)
                             - 2 * profile.missing[k].pct * profile.rows <= profile.rows
           /\ df = ProfileTestTable =>
                  /\ profile.rows = 5
                  /\ profile.cols = 4
                  /\ profile.missing = <<[col |-> "age", pct |-> 200]>>

C15_Witness ==
    /\ ProfileCalled
    /\ fs[args.file_path] = ProfileTestTable
    /\ profile.missing = <<[col |-> "age", pct |-> 200]>>

\* C16: profile_data fails, returning no profile, when the table has zero
\* columns.
C16_ZeroColumnsSchemaError ==
    (ProfileCalled /\ Len(fs[args.file_path]) = 0) => "rows" \notin DOMAIN profile

C18_Dimensionality ==
    ProfileCalled =>
        LET df == fs[args.file_path]
        IN /\ profile.dimensionality \in {"low", "high"}
           /\ profile.dimensionality = "high" <=> Cardinality(NumberColumns(df)) >= 10
           /\ df = DimTable(9) => profile.dimensionality = "low"
           /\ df \in {DimTable(10), DimTable(12)} => profile.dimensionality = "high"

C18_Witness ==
    /\ ProfileCalled
    /\ fs[args.file_path] = DimTable(10)
    /\ profile.dimensionality = "high"

(***************************************************************************)
(* Properties of the four operations together                              *)
(***************************************************************************)
\* C14: no operation modifies the table it is given: profile_data,
\* detect_outliers and analyze_data write no file, and impute_missing leaves
\* its input file as it was, writing the cleaned table, whenever it imputes,
\* to a path that is not the input path.
C14_InputTableUntouched ==
    [][/\ args.file_path \in DOMAIN fs'
       /\ fs'[args.file_path] = fs[args.file_path]
       /\ args'.op \in {"profile_data", "detect_outliers", "analyze_data"} => fs' = fs
       /\ (/\ args'.op = "impute_missing"
           /\ result'.status = "returned"
           /\ result'.method_used # "none")
          => /\ result'.file_path # args'.file_path
             /\ DOMAIN fs' = DOMAIN fs \cup {result'.file_path}
       /\ (args'.op = "impute_missing" /\ result'.status = "raised") => fs' = fs
      ]_vars

\* a cleaned file handed to impute_missing again: a second cleaned file is
\* written, and the file that was read still holds its missing cells
C14_Witness ==
    /\ ImputeReturned
    /\ result.method_used # "none"
    /\ args.file_path = CleanedPath(InputPath)
    /\ result.file_path # args.file_path
    /\ fs[result.file_path] # fs[args.file_path]
    /\ \E j \in 1..Len(fs[args.file_path]) : Missing(fs[args.file_path][j]) # {}

AnalyzeCalled == pc = "done" /\ args.op = "analyze_data"

\* the coefficient held by the moments c is within 0.01 of sign (+1 or -1);
\* the moments are brought from squared steps to squared units first
WithinHundredthOf(c, sign) ==
    LET cov == c.cov \div (Unit * Unit)
        var_x == c.var_x \div (Unit * Unit)
        var_y == c.var_y \div (Unit * Unit)
    IN /\ ~c.nan
       /\ sign * cov > 0
       /\ 100 * 100 * cov * cov > 99 * 99 * var_x * var_y

\* C20: analyze_data returns a correlation matrix exactly when the profile
\* lists at least 2 numeric columns, and None otherwise; the matrix has an
\* entry for every ordered pair of numeric columns, each column with itself
\* included; for x = 1..5, y = 2x and z = 6 - x the entry of (x, y) is within
\* 0.01 of 1 and the entry of (x, z) within 0.01 of -1.
C20_Correlations ==
    AnalyzeCalled =>
        LET df == fs[args.file_path]
            numeric == {df[j].name : j \in NumberColumns(df)}
        IN /\ result.status = "returned"
           /\ result.correlations.none <=> Len(profile.numeric_cols) < 2
           /\ ~result.correlations.none =>
                  /\ Range(profile.numeric_cols) = numeric
                  /\ \A a, b \in numeric :
                         <<a, b>> \in DOMAIN result.correlations.matrix
           /\ df = CorrTestTable =>
                  /\ WithinHundredthOf(result.correlations.matrix[<<"x", "y">>], 1)
                  /\ WithinHundredthOf(result.correlations.matrix[<<"x", "z">>], 0 - 1)

C20_Witness ==
    /\ AnalyzeCalled
    /\ fs[args.file_path] = CorrTestTable
    /\ ~result.correlations.none
    /\ result.correlations.matrix[<<"x", "z">>].cov < 0
    /\ result.correlations.matrix[<<"z", "z">>].cov > 0

\* the number of cells of column j that hold the value v
OccurrenceCount(df, j, v) ==
    Cardinality({i \in 1..Len(df[j].cells) : df[j].cells[i] = v})

\* the present values of column j
PresentValues(df, j) == {df[j].cells[i] : i \in 1..Len(df[j].cells)} \ {NA}

\* C21: categorical_summary has an entry for exactly the categorical columns
\* outside profile.high_cardinality; an entry holds at most 10 pairs of a
\* present value and its true count, no value twice, in descending count
\* order, and no value left out occurs more often than one that is listed.
C21_CategoricalSummaryTopTen ==
    AnalyzeCalled =>
        LET df == fs[args.file_path]
        IN /\ DOMAIN result.categorical_summary =
                  {df[j].name : j \in {k \in 1..Len(df) : df[k].dtype = "object"}}
                      \ Range(profile.high_cardinality)
           /\ \A j \in 1..Len(df) :
                  df[j].name \in DOMAIN result.categorical_summary =>
                      LET entry == result.categorical_summary[df[j].name]
                          listed == {entry[k].value : k \in 1..Len(entry)}
                          distinct == Cardinality(PresentValues(df, j))
                      IN /\ Len(entry) = (IF distinct < 10 THEN distinct ELSE 10)
                         /\ Cardinality(listed) = Len(entry)
                         /\ listed \subseteq PresentValues(df, j)
                         /\ \A k \in 1..Len(entry) :
                                entry[k].count = OccurrenceCount(df, j, entry[k].value)
                         /\ \A k \in 1..(Len(entry) - 1) :
                                entry[k].count >= entry[k + 1].count
                         /\ \A v \in PresentValues(df, j) \ listed :
                                \A k \in 1..Len(entry) :
                                    OccurrenceCount(df, j, v) <= entry[k].count

\* fifty values in 64 rows: the ten listed occur twice, others are left out
C21_Witness ==
    /\ AnalyzeCalled
    /\ Len(fs[args.file_path]) = 1
    /\ Cardinality(PresentValues(fs[args.file_path], 1)) = 50
    /\ "customer_id" \in DOMAIN result.categorical_summary
    /\ Len(result.categorical_summary["customer_id"]) = 10
    /\ result.categorical_summary["customer_id"][10].count = 2

(***************************************************************************)
(* Further properties of impute_missing                                    *)
(***************************************************************************)
\* the columns of profile.missing with a percentage in the set pcts
MissingNamesWithin(pcts) ==
    {profile.missing[j].col : j \in {k \in 1..Len(profile.missing) :
                                        profile.missing[k].pct \in pcts}}

NoRepeats(seq) == Cardinality(Range(seq)) = Len(seq)

\* C27: in every result of impute_missing imputed_columns and skipped_columns
\* are disjoint; the columns of profile.missing at or below the threshold (the
\* threshold itself included) are the imputed ones and those above it the
\* skipped ones, each listed once; so every column of profile.missing is in
\* exactly one list, all of them in skipped_columns when none is eligible.
C27_ImputedSkippedPartition ==
    ImputeReturned =>
        LET threshold == args.impute_threshold
            eligible == MissingNamesWithin(0..threshold)
            above == MissingNamesWithin((threshold + 1)..1000)
        IN /\ Range(result.imputed_columns) \cap Range(result.skipped_columns) = {}
           /\ Range(result.imputed_columns) = eligible
           /\ Range(result.skipped_columns) = above
           /\ NoRepeats(result.imputed_columns)
           /\ NoRepeats(result.skipped_columns)
           /\ Range(result.imputed_columns) \cup Range(result.skipped_columns)
                  = Range(MissingKeys(profile.missing))
           /\ eligible = {} =>
                  Range(result.skipped_columns) = Range(MissingKeys(profile.missing))

\* one column exactly at the threshold and imputed, another above it and
\* skipped
C27_Witness ==
    /\ ImputeReturned
    /\ \E j \in 1..Len(profile.missing) :
           /\ profile.missing[j].pct = args.impute_threshold
           /\ profile.missing[j].col \in Range(result.imputed_columns)
    /\ Len(result.skipped_columns) > 0

\* C28: simple, knn and random_forest imputation change only cells that were
\* missing: the returned table has the columns of the input, in the same
\* order and with the same number of rows, and every cell that held a value
\* holds the same value.
C28_OnlyMissingCellsChange ==
    (ImputeReturned /\ result.method_used \in {"simple", "knn", "random_forest"}) =>
        LET before == fs[args.file_path]
            after == fs[result.file_path]
        IN /\ Len(after) = Len(before)
           /\ \A j \in 1..Len(before) :
                  /\ after[j].name = before[j].name
                  /\ Len(after[j].cells) = Len(before[j].cells)
                  /\ \A i \in Present(before[j]) :
                         after[j].cells[i] = before[j].cells[i]

\* knn filled a cell of a column in which other cells held values
C28_Witness ==
    /\ ImputeReturned
    /\ result.method_used = "knn"
    /\ \E j \in 1..Len(fs[args.file_path]) :
           /\ Present(fs[args.file_path][j]) # {}
           /\ Present(fs[args.file_path][j]) # Present(fs[result.file_path][j])

(***************************************************************************)
(* Properties of analyze_file                                              *)
(***************************************************************************)
\* the calls of a run to one stage
CallsTo(run, stage) == {k \in 1..Len(run.calls) : run.calls[k].stage = stage}

Returned(run) == run.pc = "returned"

\* C22: in a run without the ml flag, impute_missing is only ever called with
\* method simple and reports method simple or none, detect_outliers is never
\* called, and the outlier result handed to the reports is a count of 0 with
\* method none.
C22_WithoutFlagSimpleNoOutliers ==
    \A r \in DOMAIN runs :
       LET run == runs[r]
       IN ~run.apply_ml_cleaning =>
             /\ \A k \in CallsTo(run, "impute") : run.calls[k].method = "simple"
             /\ run.cleaning_result.method_used \in {"simple", "none"}
             /\ CallsTo(run, "outliers") = {}
             /\ run.outlier_result.outlier_count = 0
             /\ run.outlier_result.method_used = "none"
             /\ Returned(run) =>
                   /\ reports[run.result.detailed_report_path].outlier_count = 0
                   /\ reports[run.result.detailed_report_path].outlier_method = "none"

\* a run without the flag returned after imputing a table with numeric columns
C22_Witness ==
    \E r \in DOMAIN runs :
       /\ ~runs[r].apply_ml_cleaning
       /\ Returned(runs[r])
       /\ CallsTo(runs[r], "impute") # {}
       /\ runs[r].cleaning_result.method_used = "simple"
       /\ Len(runs[r].profile.numeric_cols) > 0

ChatLimit == 1500

\* C23: the chat report of a run is always shorter than 1500 characters,
\* whatever the number of columns and whatever their names.
C23_ChatReportBelowLimit ==
    \A r \in DOMAIN runs :
       Returned(runs[r]) => Len(runs[r].result.chat_report) < ChatLimit

StageOrder == <<"ingest", "profile", "impute", "outliers", "analyze", "visualize", "report">>

StageRank(stage) == CHOOSE k \in 1..Len(StageOrder) : StageOrder[k] = stage

\* the run is past the phase: its next call, if any, is to a later stage
Past(run, stage) ==
    /\ run.pc # "raised"
    /\ run.pc = "returned" \/ StageRank(IF run.pc = "clean" THEN "impute" ELSE run.pc)
                                 > StageRank(stage)

\* C24: the stages of a run are called in the order ingest, profile, impute,
\* detect outliers, analyze, visualize, report, each at most once; imputation
\* is called exactly when the profile lists a missing column, outlier
\* detection exactly in ml mode with a numeric column; and once imputation
\* has returned a table, outlier detection, analysis and visualization are
\* handed the file it returned and read the table it wrote.
C24_StagesInOrder ==
    \A r \in DOMAIN runs :
       LET run == runs[r]
           calls == run.calls
       IN /\ \A j, k \in 1..Len(calls) :
                j < k => StageRank(calls[j].stage) < StageRank(calls[k].stage)
          /\ \A k \in 1..Len(StageOrder) :
                (Past(run, StageOrder[k]) /\ StageOrder[k] \notin {"impute", "outliers"})
                   => CallsTo(run, StageOrder[k]) # {}
          /\ Past(run, "impute") =>
                (CallsTo(run, "impute") # {} <=> Len(run.profile.missing) > 0)
          /\ Past(run, "outliers") =>
                (CallsTo(run, "outliers") # {}
                    <=> run.apply_ml_cleaning /\ Len(run.profile.numeric_cols) > 0)
          /\ \A j \in CallsTo(run, "impute") :
                \A k \in CallsTo(run, "outliers") \cup CallsTo(run, "analyze")
                            \cup CallsTo(run, "visualize") :
                   calls[j].outcome = "returned" =>
                      /\ calls[k].file = run.cleaning_result.file_path
                      /\ calls[k].table = run.wrote[run.cleaning_result.file_path]

\* a run in ml mode imputed a column into a new file, looked for outliers in it
\* and returned
C24_Witness ==
    \E r \in DOMAIN runs :
       /\ Returned(runs[r])
       /\ runs[r].apply_ml_cleaning
       /\ Len(runs[r].cleaning_result.imputed_columns) > 0
       /\ runs[r].cleaning_result.file_path # IngestedPath(runs[r].file_path)
       /\ CallsTo(runs[r], "outliers") # {}
       /\ Len(runs[r].calls) = Len(StageOrder)

\* the stages that are handed a profile
ProfiledStages == {"impute", "outliers", "analyze", "visualize", "report"}

\* C25: every profile handed to a stage is the profile of the table snapshot
\* the stage works on: after imputation it is the profile of the cleaned table.
C25_ProfileOfSameSnapshot ==
    \A r \in DOMAIN runs :
       \A k \in 1..Len(runs[r].calls) :
          runs[r].calls[k].stage \in ProfiledStages =>
             runs[r].calls[k].profile = profile_data(runs[r].calls[k].table)

\* C26: when a stage raises, analyze_file ends with that same error: the
\* raising call is the last call of the run (no retry, no later stage), no
\* result dictionary is returned and no detailed report file is written.
C26_ErrorsPropagate ==
    \A r \in DOMAIN runs :
       LET run == runs[r]
           calls == run.calls
       IN /\ \A k \in 1..Len(calls) :
                calls[k].outcome # "returned" =>
                   /\ k = Len(calls)
                   /\ run.pc = "raised"
                   /\ run.error = calls[k].outcome
          /\ run.pc = "raised" =>
                /\ run.error # "none"
                /\ calls[Len(calls)].outcome = run.error
                /\ run.result = NoResult
                /\ ReportPath(run.file_path) \notin DOMAIN reports

\* impute_missing raised in the middle of a run
C26_Witness ==
    \E r \in DOMAIN runs :
       /\ runs[r].pc = "raised"
       /\ runs[r].calls[Len(runs[r].calls)].stage = "impute"
       /\ runs[r].error = "ValueError"

\* the stages that read an intermediate table
ReadingStages == {"profile", "impute", "outliers", "analyze", "visualize"}

\* C29: the intermediate tables of a run (ingested, cleaned) are not
\* overwritten by another run on a different input between their write and
\* their last read, under any interleaving: every stage reads from its file
\* the table its own run wrote there.
C29_IntermediateTablesPrivate ==
    \A r \in DOMAIN runs :
       \A k \in 1..Len(runs[r].calls) :
          runs[r].calls[k].stage \in ReadingStages =>
             runs[r].calls[k].table = runs[r].calls[k].own

(***************************************************************************)
(* Properties of the survey cleaners                                       *)
(***************************************************************************)
\* a load_data call completed among the first n calls
LoadedWithin(n) ==
    \E k \in 1..n : /\ cleaner.history[k].op = "load_data"
                    /\ cleaner.history[k].outcome = "returned"

\* the calls made before any load_data completed raise ValueError, and as
\* long as none has completed the table is unset and no file is written
GuardsHold ==
    /\ \A k \in 1..Len(cleaner.history) :
          (cleaner.history[k].op # "load_data" /\ ~LoadedWithin(k - 1))
             => cleaner.history[k].outcome = "ValueError"
    /\ ~LoadedWithin(Len(cleaner.history)) =>
          cleaner.df = NoTable /\ cleaner.written = <<>>

\* the last call was keep_variables on a loaded table
KeptLast ==
    /\ Len(cleaner.history) > 0
    /\ cleaner.history[Len(cleaner.history)].op = "keep_variables"
    /\ LoadedWithin(Len(cleaner.history))

\* clean_data completed on the table of the last completed load_data
CleanedBefore ==
    \E k \in 1..Len(cleaner.history) :
       /\ cleaner.history[k].op = "clean_data"
       /\ cleaner.history[k].outcome = "returned"
       /\ \A j \in (k + 1)..Len(cleaner.history) :
             ~(cleaner.history[j].op = "load_data" /\ cleaner.history[j].outcome = "returned")

\* C30 as stated: the guards hold, and after a completed load_data
\* keep_variables leaves exactly the fixed list of kept columns in that
\* order, whether or not clean_data ran first.
C30_KeepsExactlyFixedList ==
    cleaner.cls \in CleanerClasses =>
       /\ GuardsHold
       /\ KeptLast => cleaner.df = TableOf(KeptColumns(cleaner.cls))

\* C30, amended: the guards hold; after a completed load_data keep_variables
\* leaves exactly the fixed list in that order for MRDataCleaner and
\* PRDataCleaner, and for IRDataCleaner the fixed list followed by the
\* wmn_occup_ columns the table had, in their order (the five dummies of
\* clean_data when it ran on the loaded table first).
C30_KeepsFixedListAndOccupationDummies ==
    cleaner.cls \in CleanerClasses =>
       /\ GuardsHold
       /\ KeptLast =>
             LET before == cleaner.history[Len(cleaner.history)].before.columns
             IN /\ cleaner.cls # "IR" => cleaner.df = TableOf(KeptColumns(cleaner.cls))
                /\ cleaner.cls = "IR" =>
                      /\ cleaner.df = TableOf(KeptColumns("IR")
                                              \o SelectSeq(before, StartsWithWmnOccup))
                      /\ (CleanedBefore /\ "wmn_occup_1" \notin Range(before)) =>
                            cleaner.df = TableOf(KeptColumns("IR")
                                                 \o SubSeq(NewColumns("IR"), 13, 17))

\* an IRDataCleaner loaded, cleaned and kept: the five dummies follow the list
C30_Witness ==
    /\ cleaner.cls = "IR"
    /\ KeptLast
    /\ CleanedBefore
    /\ Len(cleaner.df.columns) = Len(KeptColumns("IR")) + 5

====
